---- MODULE Spec2Model ----
(***************************************************************************)
(* Openfield: interval detection and segmentation                          *)
(* (project_root/processing/tracking_based_segmentation.py), loading of    *)
(* the syllable groups and multi-modal alignment                           *)
(* (syllable_root/data_loader.py), syllable proportions, Borda ranking     *)
(* and snippet extraction (syllable_root/data_processing.py), mean         *)
(* photometry signatures and the comparison of distance matrices           *)
(* (syllable_root/analysis.py).                                            *)
(*                                                                         *)
(* Data representation.                                                    *)
(*  - A float cell that may be missing is a sequence: <<>> is NaN, <<v>>   *)
(*    is the number v.                                                     *)
(*  - A coordinate series is kept run-length encoded: a sequence of runs   *)
(*    [nan |-> BOOLEAN, n |-> length], adjacent runs differing in nan.     *)
(*    Frame idx (0-based, as in pandas) belongs to the run that covers it. *)
(*  - Python's None / list return of a function is [none |-> TRUE/FALSE,   *)
(*    val |-> the list].                                                   *)
(***************************************************************************)
EXTENDS Integers, Sequences, FiniteSets, TLC

VARIABLES
    coords,          \* find_non_nan_intervals: the centroid_coords argument
    detected,        \* find_non_nan_intervals: the returned value
    pcDetect,        \* "build" | "done"
    dirs,            \* process_mouse_data_from_path: list_folders(raw_path), with each directory's content
    dir_pos,         \* process_mouse_data_from_path: number of directories already processed
    all_mouse_intervals,             \* dict mouse_id -> triplet
    all_mouse_intervals_timestamps,  \* dict mouse_id -> timestamp triplet
    pcBatch,         \* "list" | "loop" | "returned"
    nan_intervals,   \* nan_interval_to_segments: the argument
    segments,        \* nan_interval_to_segments: the returned value
    pcSegments,      \* "build" | "done"
    syllable_dfs,    \* align_and_merge_data: the subjects' syllable tables, in key order
    tracking_dfs,    \* align_and_merge_data: dict mouse_id -> tracking table
    fiber_dfs,       \* align_and_merge_data: dict mouse_id -> fiber table
    merged_dfs,      \* align_and_merge_data: dict mouse_id -> merged table
    align_pos,       \* align_and_merge_data: number of subjects already processed
    pcAlign,         \* "loop" | "returned"
    subject_dfs,     \* the merged_dfs argument of compute_syllable_counts and extract_signal_snippets, in key order
    parameters,      \* extract_signal_snippets: the parameters argument
    all_syllables,   \* compute_syllable_counts: the sorted labels
    counts_pos,      \* compute_syllable_counts: number of subjects already processed
    initiations,     \* compute_syllable_counts: the initiation mask of the last subject processed
    num_initiations, \* compute_syllable_counts: label -> initiation count of the last subject processed
    initiations_proportions,  \* dict label -> list of proportions
    time_spent_proportions,   \* dict label -> list of proportions
    pcCounts,        \* "ready" | "loop" | "returned" | "raised"
    snippets_pos,    \* extract_signal_snippets: number of subjects already processed
    syllable_snippets_DS,     \* dict (genotype, phase, label) -> list of snippets
    syllable_snippets_VS,     \* dict (genotype, phase, label) -> list of snippets
    pcSnippets,      \* "ready" | "loop" | "returned" | "raised"
    avg_initiations_proportions,  \* rank_syllables: dict label -> average
    avg_time_spent_proportions,   \* rank_syllables: dict label -> average
    sorted_initiations,  \* rank_syllables: list of (label, average), descending
    sorted_time_spent,   \* rank_syllables: list of (label, average), descending
    borda_scores,    \* rank_syllables: list of (label, points) in insertion order
    final_ranking,   \* rank_syllables: list of (label, points), descending
    pcRank,          \* "ready" | "returned"
    syllable_snippets,      \* compute_photometry_distance_matrix: the buckets, in iteration order
    allowed_syllables,      \* its top_syllables argument: None or a list of labels
    min_snippets,           \* its min_snippets argument
    photometry_signatures,  \* dict label -> list of snippets
    syllable_means,         \* dict label -> mean snippet
    syllables_photometry,   \* the sorted labels of syllable_means
    pcPhotometry,           \* "ready" | "returned"
    behavior_data,          \* compare_distance_matrices: the files, in iteration order
    photometry_distances,   \* its photometry_distances argument: None or a matrix
    compare_pos,            \* number of files already processed
    comparisons,            \* the vectors handed to spearmanr, one record per compared file
    diagnostics,            \* the files skipped with a warning
    pcCompare,              \* "ready" | "loop" | "returned"
    groups,                 \* load_syllable_data: the groups of the file, in key order
    include_latent_state,   \* its include_latent_state argument
    load_pos,               \* number of groups already processed
    load_syllable_dfs,      \* its syllable_dfs: dict mouse_id -> table
    load_returned,          \* None, or the returned dict
    pcLoad                  \* "ready" | "loop" | "returned" | "raised"

detectVars == <<coords, detected, pcDetect>>
batchVars == <<dirs, dir_pos, all_mouse_intervals, all_mouse_intervals_timestamps, pcBatch>>
segmentVars == <<nan_intervals, segments, pcSegments>>

alignVars == <<syllable_dfs, tracking_dfs, fiber_dfs, merged_dfs, align_pos, pcAlign>>

countsVars == <<all_syllables, counts_pos, initiations, num_initiations,
                initiations_proportions, time_spent_proportions, pcCounts>>

snippetVars == <<snippets_pos, syllable_snippets_DS, syllable_snippets_VS, pcSnippets>>

syllableVars == <<subject_dfs, parameters, countsVars, snippetVars>>

rankVars == <<avg_initiations_proportions, avg_time_spent_proportions, sorted_initiations,
              sorted_time_spent, borda_scores, final_ranking, pcRank>>

photometryVars == <<syllable_snippets, allowed_syllables, min_snippets, photometry_signatures,
                    syllable_means, syllables_photometry, pcPhotometry>>

compareVars == <<behavior_data, photometry_distances, compare_pos, comparisons, diagnostics,
                 pcCompare>>

loadVars == <<groups, include_latent_state, load_pos, load_syllable_dfs, load_returned, pcLoad>>

vars == <<detectVars, batchVars, segmentVars, alignVars, syllableVars, rankVars, photometryVars,
          compareVars, loadVars>>

----------------------------------------------------------------------------
(* Generic helpers *)

NaN == <<>>

None == [none |-> TRUE, val |-> <<>>]

Some(v) == [none |-> FALSE, val |-> v]

\* Python truthiness of an optional list: None and [] are falsy.
Truthy(r) == (~r.none) /\ r.val # <<>>

Min(a, b) == IF a <= b THEN a ELSE b

Range(s) == {s[k] : k \in 1..Len(s)}

\* Python zip: pairs up to the shorter list.
zip(a, b) == [k \in 1..Min(Len(a), Len(b)) |-> <<a[k], b[k]>>]

----------------------------------------------------------------------------
(* find_non_nan_intervals                                                  *)

\* Bound on the number of runs of a generated coordinate series.
MaxRuns == 7

\* The minimum interval length, 4 * 60 frames.
min_interval == 4 * 60

RunLens == {1, min_interval, min_interval + 1}

RECURSIVE RunStart(_, _)
\* 0-based index of the first frame of run k.
RunStart(c, k) == IF k = 1 THEN 0 ELSE RunStart(c, k - 1) + c[k - 1].n

\* len(centroid_coords)
SeriesLen(c) == IF c = <<>> THEN 0 ELSE RunStart(c, Len(c)) + c[Len(c)].n

RunOf(c, idx) == CHOOSE k \in 1..Len(c) : RunStart(c, k) <= idx /\ idx < RunStart(c, k) + c[k].n

\* is_nan = centroid_coords.isna(); is_nan[idx]
is_nan(c, idx) == c[RunOf(c, idx)].nan

\* transitions = is_nan != is_nan.shift(); transitions[transitions].index
\* shift() puts NaN in front, and anything != NaN is True, so index 0 is
\* always a transition; the others are the indices where is_nan changes,
\* which are the first frames of the later runs.
transition_indices(c) == [k \in 1..Len(c) |-> RunStart(c, k)]

\* The for loop over transition_indices, then the start-of-series handling.
nan_to_vals(c) ==
    LET present(idx) == ~is_nan(c, idx)
        loop == SelectSeq(transition_indices(c), present)
    IN  IF ~is_nan(c, 0) THEN <<0>> \o loop ELSE loop

\* The for loop over transition_indices, then the end-of-series handling.
val_to_nans(c) ==
    LET missing(idx) == is_nan(c, idx)
        loop == SelectSeq(transition_indices(c), missing)
    IN  IF ~is_nan(c, SeriesLen(c) - 1) THEN Append(loop, SeriesLen(c)) ELSE loop

\* val_intervals after pairing and after the length filter.
val_intervals(c) ==
    LET long(p) == (p[2] - p[1]) > min_interval
    IN  SelectSeq(zip(val_to_nans(c), nan_to_vals(c)), long)

\* The count check dropped: whatever was found is returned.
find_non_nan_intervals_any(c) == Some(val_intervals(c))

find_non_nan_intervals(c) ==
    IF Len(val_intervals(c)) # 3 THEN None ELSE Some(val_intervals(c))

\* The caller's series grows by one run (input generation).
AppendRun ==
    /\ pcDetect = "build"
    /\ Len(coords) < MaxRuns
    /\ \E nan \in BOOLEAN, n \in RunLens :
          /\ IF coords = <<>> THEN TRUE ELSE coords[Len(coords)].nan # nan
          /\ coords' = Append(coords, [nan |-> nan, n |-> n])
    /\ UNCHANGED <<detected, pcDetect, batchVars, segmentVars, alignVars, syllableVars, rankVars, photometryVars, compareVars, loadVars>>

\* One call of find_non_nan_intervals on a non-empty series.
Detect ==
    /\ pcDetect = "build"
    /\ coords # <<>>
    /\ detected' = find_non_nan_intervals(coords)
    /\ pcDetect' = "done"
    /\ UNCHANGED <<coords, batchVars, segmentVars, alignVars, syllableVars, rankVars, photometryVars, compareVars, loadVars>>

NextDetect == AppendRun \/ Detect

----------------------------------------------------------------------------
(* process_mouse_data_from_path                                            *)

\* Bound on the number of session directories of a batch.
MaxDirs == 2

Run(nan, n) == [nan |-> nan, n |-> n]

Gap == Run(TRUE, min_interval + 1)

Blip == Run(FALSE, 1)

Stay == Run(FALSE, min_interval + 1)

\* Arena coordinate columns a session's tracking file may hold.
SeriesCatalogue ==
    { <<Gap, Blip, Gap, Blip, Gap, Blip>>,                  \* three long gaps
      <<Gap, Blip, Gap, Blip, Gap, Blip, Gap, Blip>>,       \* four long gaps
      <<Stay, Run(TRUE, 1), Stay, Run(TRUE, 1), Stay>> }    \* three long present runs

\* mice_ids of a directory name "<trial>_<id>.<id>"; 'e' marks an empty arena.
MiceIdLists == { <<"m1", "e">>, <<"m2", "m1">> }

DirContents == [mice_ids : MiceIdLists, arena : SeriesCatalogue \X SeriesCatalogue]

\* cam_df['Timestamp.FP3002_System'].iloc[i] of a session: the photometry
\* clock, two ticks per frame from the session's first reading.
Timestamp(i) == 1000 + 2 * i

\* dict[key] = value
DictSet(d, key, value) == [x \in (DOMAIN d) \cup {key} |-> IF x = key THEN value ELSE d[x]]

EmptyDict == <<>>

\* The list comprehension of lines 62-66.
timestamp_intervals(triplet) ==
    [k \in 1..Len(triplet) |-> <<Timestamp(triplet[k][1]), Timestamp(triplet[k][2])>>]

\* Whether an .iloc[] of lines 63-64 is out of range (IndexError).
iloc_out_of_range(c, triplet) ==
    \E k \in 1..Len(triplet) : triplet[k][1] >= SeriesLen(c) \/ triplet[k][2] >= SeriesLen(c)

RECURSIVE arena_loop(_, _, _)
\* The inner loop over zip(mice_ids, arena_columns), from arena j on:
\* acc = [ts |-> all_mouse_intervals_timestamps, iv |-> all_mouse_intervals,
\*        raised |-> an exception left the loop].
arena_loop(d, j, acc) ==
    IF acc.raised \/ j > Min(Len(d.mice_ids), 2) THEN acc
    ELSE LET mouse_id == d.mice_ids[j]
             non_nan_triplet == find_non_nan_intervals(d.arena[j])
         IN  IF mouse_id # "e" /\ Truthy(non_nan_triplet)
             THEN IF iloc_out_of_range(d.arena[j], non_nan_triplet.val)
                  THEN [acc EXCEPT !.raised = TRUE]
                  ELSE arena_loop(d, j + 1,
                         [ts |-> DictSet(acc.ts, mouse_id, timestamp_intervals(non_nan_triplet.val)),
                          iv |-> DictSet(acc.iv, mouse_id, non_nan_triplet.val),
                          raised |-> FALSE])
             ELSE arena_loop(d, j + 1, acc)

\* list_folders(raw_path) finds one more session directory (input generation).
AddDir ==
    /\ pcBatch = "list"
    /\ Len(dirs) < MaxDirs
    /\ \E d \in DirContents : dirs' = Append(dirs, d)
    /\ UNCHANGED <<dir_pos, all_mouse_intervals, all_mouse_intervals_timestamps, pcBatch,
                   detectVars, segmentVars, alignVars, syllableVars, rankVars, photometryVars, compareVars, loadVars>>

\* The call: both dicts start empty.
CallProcess ==
    /\ pcBatch = "list"
    /\ pcBatch' = "loop"
    /\ UNCHANGED <<dirs, dir_pos, all_mouse_intervals, all_mouse_intervals_timestamps,
                   detectVars, segmentVars, alignVars, syllableVars, rankVars, photometryVars, compareVars, loadVars>>

\* One iteration of the loop over the directories.
ProcessDir ==
    /\ pcBatch = "loop"
    /\ dir_pos < Len(dirs)
    /\ LET acc == arena_loop(dirs[dir_pos + 1], 1,
                    [ts |-> all_mouse_intervals_timestamps, iv |-> all_mouse_intervals,
                     raised |-> FALSE])
       IN  /\ all_mouse_intervals_timestamps' = acc.ts
           /\ all_mouse_intervals' = acc.iv
           /\ pcBatch' = IF acc.raised THEN "raised" ELSE "loop"
    /\ dir_pos' = dir_pos + 1
    /\ UNCHANGED <<dirs, detectVars, segmentVars, alignVars, syllableVars, rankVars, photometryVars, compareVars, loadVars>>

\* return all_mouse_intervals_timestamps
ReturnProcess ==
    /\ pcBatch = "loop"
    /\ dir_pos = Len(dirs)
    /\ pcBatch' = "returned"
    /\ UNCHANGED <<dirs, dir_pos, all_mouse_intervals, all_mouse_intervals_timestamps,
                   detectVars, segmentVars, alignVars, syllableVars, rankVars, photometryVars, compareVars, loadVars>>

NextBatch == AddDir \/ CallProcess \/ ProcessDir \/ ReturnProcess

----------------------------------------------------------------------------
(* nan_interval_to_segments                                                *)

\* Bound on the length of a generated interval list.
MaxIntervals == 4

\* Elements an interval list may hold: pairs, and tuples that are no pairs.
TupleCatalogue ==
    { <<100, 150>>, <<5000, 5010>>, <<9000, 9050>>, <<0, 0>>, <<100>>, <<1, 2, 3>> }

\* A slip in the unpacking: the baseline is taken before the first interval.
nan_interval_to_segments_first(iv) ==
    IF Len(iv) = 3 /\ \A k \in 1..Len(iv) : Len(iv[k]) = 2
    THEN Some(<< <<iv[1][1] - 15 * 60, iv[1][1]>>,
                 <<iv[2][2], iv[2][2] + 30 * 60>>,
                 <<iv[3][2], iv[3][2] + 30 * 60>> >>)
    ELSE None

nan_interval_to_segments(iv) ==
    IF Len(iv) = 3 /\ \A k \in 1..Len(iv) : Len(iv[k]) = 2
    THEN LET c == iv[2][1]
             d == iv[2][2]
             f == iv[3][2]
         IN  Some(<< <<c - 15 * 60, c>>, <<d, d + 30 * 60>>, <<f, f + 30 * 60>> >>)
    ELSE None

\* The caller's interval list grows by one element (input generation).
AppendInterval ==
    /\ pcSegments = "build"
    /\ Len(nan_intervals) < MaxIntervals
    /\ \E t \in TupleCatalogue : nan_intervals' = Append(nan_intervals, t)
    /\ UNCHANGED <<segments, pcSegments, detectVars, batchVars, alignVars, syllableVars, rankVars, photometryVars, compareVars, loadVars>>

\* One call of nan_interval_to_segments.
DeriveSegments ==
    /\ pcSegments = "build"
    /\ segments' = nan_interval_to_segments(nan_intervals)
    /\ pcSegments' = "done"
    /\ UNCHANGED <<nan_intervals, detectVars, batchVars, alignVars, syllableVars, rankVars, photometryVars, compareVars, loadVars>>

NextSegments == AppendInterval \/ DeriveSegments

----------------------------------------------------------------------------
(* align_and_merge_data                                                    *)
(* A table is [columns |-> list of column names, ts |-> the cells of its   *)
(* timestamp column, one per row] (all NaN when it has no such column).    *)
(* A merged table is [columns, rows], each row naming the combined row and *)
(* the fiber row (0-based positions in the input tables, -1: none) it was  *)
(* made of.                                                                *)

\* Bound on the number of rows of a generated table.
MaxRows == 2

TRACK_TS == "BonsaiTrackingTimestamp"

FLY_TS == "BonsaiFlyTimestamp"

MouseIds == {"m1", "m2"}

TrackTimes == {2, 3, 4}

FiberTimes == {1, 3, 5}

Cell(v) == <<v>>

isna(x) == x = NaN

Has(columns, c) == \E k \in 1..Len(columns) : columns[k] = c

Count(columns, c) == Cardinality({k \in 1..Len(columns) : columns[k] = c})

Max(a, b) == IF a >= b THEN a ELSE b

\* df.shape[0]
shape0(df) == Len(df.ts)

\* The tracking table is not truncated to the syllable table's length.
min_len_tracking(len1, len2) == len2

\* min_len = min(len1, len2)
min_len(len1, len2) == Min(len1, len2)

\* df.iloc[:n].reset_index(drop=True)
iloc_head(df, n) == [df EXCEPT !.ts = SubSeq(df.ts, 1, Min(n, Len(df.ts)))]

\* Rows past the end of a shorter table are NaN in an axis=1 concat.
pad(ts, n) == [k \in 1..n |-> IF k <= Len(ts) THEN ts[k] ELSE NaN]

\* pd.concat([syllable_df_aligned, tracking_df_aligned], axis=1); the
\* timestamp column looked up afterwards is the tracking table's when it
\* has one, else the syllable table's.
concat(a, b) ==
    [columns |-> a.columns \o b.columns,
     ts |-> pad(IF Has(b.columns, TRACK_TS) THEN b.ts ELSE a.ts, Max(shape0(a), shape0(b)))]

\* The rows of a table with their 0-based positions.
rows_of(df) == [k \in 1..Len(df.ts) |-> [pos |-> k - 1, ts |-> df.ts[k]]]

\* Ordering of sort_values: ascending, NaN last.
Before(a, b) ==
    IF isna(a.ts) THEN FALSE
    ELSE IF isna(b.ts) THEN TRUE
    ELSE a.ts[1] < b.ts[1]

\* r put into an ordered list, after the rows it does not precede.
insert_sorted(sorted, r) ==
    LET firstAfter == {k \in 1..Len(sorted) : Before(r, sorted[k])}
        at == IF firstAfter = {} THEN Len(sorted) + 1
              ELSE CHOOSE k \in firstAfter : \A h \in firstAfter : k <= h
    IN  SubSeq(sorted, 1, at - 1) \o <<r>> \o SubSeq(sorted, at, Len(sorted))

RECURSIVE sort_from(_, _, _)
sort_from(rows, k, sorted) ==
    IF k > Len(rows) THEN sorted ELSE sort_from(rows, k + 1, insert_sorted(sorted, rows[k]))

\* The rows are left in the order they came in.
sort_values_unsorted(rows) == rows

\* df.sort_values(timestamp column)
sort_values(rows) == sort_from(rows, 1, <<>>)

\* What makes the statement in the try block raise: a timestamp label that
\* is not unique (sort_values), or a null merge key on either side
\* (merge_asof).
merge_raises(combined_df, fiber_df) ==
    \/ Count(combined_df.columns, TRACK_TS) > 1
    \/ Count(fiber_df.columns, FLY_TS) > 1
    \/ \E k \in 1..Len(combined_df.ts) : isna(combined_df.ts[k])
    \/ \E k \in 1..Len(fiber_df.ts) : isna(fiber_df.ts[k])

\* Last position of the sorted right keys that is <= lv (0: none).
asof_backward(lv, right) ==
    LET le == {k \in 1..Len(right) : right[k].ts[1] <= lv}
    IN  IF le = {} THEN 0 ELSE CHOOSE k \in le : \A h \in le : h <= k

\* First position of the sorted right keys that is >= lv (0: none).
asof_forward(lv, right) ==
    LET ge == {k \in 1..Len(right) : right[k].ts[1] >= lv}
    IN  IF ge = {} THEN 0 ELSE CHOOSE k \in ge : \A h \in ge : k <= h

\* direction='backward' instead of 'nearest'.
asof_nearest_backward(lv, right) == asof_backward(lv, right)

\* direction='nearest': the closer of the backward and the forward match,
\* the backward one on a tie.
asof_nearest(lv, right) ==
    LET b == asof_backward(lv, right)
        f == asof_forward(lv, right)
    IN  IF b # 0 /\ f # 0
        THEN IF lv - right[b].ts[1] <= right[f].ts[1] - lv THEN b ELSE f
        ELSE IF b # 0 THEN b ELSE f

\* pd.merge_asof(left, right, left_on, right_on, direction='nearest'): a
\* left join, one output row per left row, in the left rows' order.
merge_asof(left, right) ==
    [i \in 1..Len(left) |->
        LET j == asof_nearest(left[i].ts[1], right)
        IN  [timestamp_syllable |-> left[i].ts,
             timestamp_fiber |-> IF j = 0 THEN NaN ELSE right[j].ts,
             left_row |-> left[i].pos,
             right_row |-> IF j = 0 THEN 0 - 1 ELSE right[j].pos]]

columns_to_drop == {"MetaFlyTimestamp", "ExtraVar1", "FrameNo"}

\* The columns of merged_df: suffixes on the names both tables have, the
\* timestamp columns renamed, the noise columns dropped, the fiber
\* channels renamed.
merged_columns(left_columns, right_columns) ==
    LET suffixed(own, other, sfx) ==
            [k \in 1..Len(own) |-> IF Has(other, own[k]) THEN own[k] \o sfx ELSE own[k]]
        joined == suffixed(left_columns, right_columns, "_syllable")
                    \o suffixed(right_columns, left_columns, "_fiber")
        rename(c) == CASE c = TRACK_TS -> "timestamp_syllable"
                       [] c = FLY_TS -> "timestamp_fiber"
                       [] c = "Fiber1_ZdFF_scaled" -> "VS_470"
                       [] c = "Fiber3_ZdFF_scaled" -> "DS_470"
                       [] OTHER -> c
        kept(c) == c \notin columns_to_drop
    IN  [k \in 1..Len(SelectSeq(joined, kept)) |-> rename(SelectSeq(joined, kept)[k])]

\* combined_df of one subject (lines 204-213).
combined_of(syllable_df, tracking_df) ==
    LET n == min_len(shape0(syllable_df), shape0(tracking_df))
    IN  concat(iloc_head(syllable_df, n), iloc_head(tracking_df, n))

\* The try block of one subject (lines 221-251).
merged_of(combined_df, fiber_df) ==
    [columns |-> merged_columns(combined_df.columns, fiber_df.columns),
     rows |-> merge_asof(sort_values(rows_of(combined_df)), sort_values(rows_of(fiber_df)))]

\* A failed merge leaves the combined table as the subject's result.
align_iteration_keep(mouse_id, syllable_df, merged) ==
    IF mouse_id \notin DOMAIN tracking_dfs \/ mouse_id \notin DOMAIN fiber_dfs THEN merged
    ELSE LET combined_df == combined_of(syllable_df, tracking_dfs[mouse_id])
             fiber_df == fiber_dfs[mouse_id]
         IN  IF ~Has(combined_df.columns, TRACK_TS) \/ ~Has(fiber_df.columns, FLY_TS) THEN merged
             ELSE IF merge_raises(combined_df, fiber_df)
                  THEN DictSet(merged, mouse_id, [columns |-> combined_df.columns, rows |-> <<>>])
                  ELSE DictSet(merged, mouse_id, merged_of(combined_df, fiber_df))

\* One iteration of the loop over syllable_dfs.keys(): the new merged_dfs.
align_iteration(mouse_id, syllable_df, merged) ==
    IF mouse_id \notin DOMAIN tracking_dfs THEN merged
    ELSE IF mouse_id \notin DOMAIN fiber_dfs THEN merged
    ELSE LET tracking_df == tracking_dfs[mouse_id]
             fiber_df == fiber_dfs[mouse_id]
             combined_df == combined_of(syllable_df, tracking_df)
         IN  IF ~Has(combined_df.columns, TRACK_TS) \/ ~Has(fiber_df.columns, FLY_TS) THEN merged
             ELSE IF merge_raises(combined_df, fiber_df) THEN merged
             ELSE DictSet(merged, mouse_id, merged_of(combined_df, fiber_df))

\* Generated input tables.
SeqsUpTo(S, n) == UNION {[1..k -> S] : k \in 0..n}

Cells(S) == {Cell(v) : v \in S} \cup {NaN}

SyllTable(n) == [columns |-> <<"syllable_0">>, ts |-> [k \in 1..n |-> NaN]]

TrackTable(ts) == [columns |-> <<TRACK_TS, "X">>, ts |-> ts]

FiberTable(ts) == [columns |-> <<FLY_TS, "Fiber1_ZdFF_scaled", "Fiber3_ZdFF_scaled", "FrameNo">>, ts |-> ts]

\* One subject, every table up to MaxRows rows.
OneSubjectInputs ==
    { [s |-> << [id |-> "m1", df |-> SyllTable(n)] >>,
       t |-> ("m1" :> TrackTable(ts)),
       f |-> ("m1" :> FiberTable(fs))] :
      n \in 0..MaxRows,
      ts \in SeqsUpTo(Cells(TrackTimes), MaxRows),
      fs \in SeqsUpTo(Cells(FiberTimes), MaxRows) }

\* A subject of a batch: its syllable table, and its tracking and fiber
\* tables when it has them (<<>>: no such table).
SubjectCatalogue ==
    [ s : { SyllTable(2),
            [columns |-> <<"syllable_0", TRACK_TS>>, ts |-> <<Cell(2), Cell(4)>>] },
      t : { <<>>,
            << [columns |-> <<"X">>, ts |-> <<NaN, NaN>>] >>,
            << TrackTable(<<Cell(3), Cell(2)>>) >>,
            << TrackTable(<<NaN, Cell(2)>>) >> },
      f : { <<>>,
            << [columns |-> <<"Fiber1_ZdFF_scaled">>, ts |-> <<NaN>>] >>,
            << FiberTable(<<Cell(5), Cell(1)>>) >>,
            << FiberTable(<<NaN>>) >> } ]

\* Two subjects in either key order, each from the catalogue.
BatchInputs ==
    { [s |-> << [id |-> first, df |-> a.s], [id |-> second, df |-> b.s] >>,
       t |-> [id \in {x \in MouseIds : (IF x = first THEN a.t ELSE b.t) # <<>>}
                |-> (IF id = first THEN a.t ELSE b.t)[1]],
       f |-> [id \in {x \in MouseIds : (IF x = first THEN a.f ELSE b.f) # <<>>}
                |-> (IF id = first THEN a.f ELSE b.f)[1]]] :
      first \in MouseIds, second \in MouseIds, a \in SubjectCatalogue, b \in SubjectCatalogue }

AlignInputs == OneSubjectInputs \cup {b \in BatchInputs : b.s[1].id # b.s[2].id}

\* One iteration of the loop over the subjects.
AlignStep ==
    /\ pcAlign = "loop"
    /\ align_pos < Len(syllable_dfs)
    /\ merged_dfs' = align_iteration(syllable_dfs[align_pos + 1].id,
                                     syllable_dfs[align_pos + 1].df, merged_dfs)
    /\ align_pos' = align_pos + 1
    /\ UNCHANGED <<syllable_dfs, tracking_dfs, fiber_dfs, pcAlign,
                   detectVars, batchVars, segmentVars, syllableVars, rankVars, photometryVars, compareVars, loadVars>>

\* return merged_dfs
AlignReturn ==
    /\ pcAlign = "loop"
    /\ align_pos = Len(syllable_dfs)
    /\ pcAlign' = "returned"
    /\ UNCHANGED <<syllable_dfs, tracking_dfs, fiber_dfs, merged_dfs, align_pos,
                   detectVars, batchVars, segmentVars, syllableVars, rankVars, photometryVars, compareVars, loadVars>>

NextAlign == AlignStep \/ AlignReturn

----------------------------------------------------------------------------
(* compute_syllable_counts and extract_signal_snippets: initiation events  *)
(* A merged timeline is [columns |-> set of column names, genotype |-> the *)
(* value of its Genotype_syllable column, rows |-> frames]; a frame holds  *)
(* the raw syllable_0 cell and the SecFromInjection_fiber cell.  A raw     *)
(* cell that is text is Text(v) when the text reads as the number v and    *)
(* Junk when it reads as no number.  A signal sample is a number cell or   *)
(* NaN; a smoothed or normalized sample is NaN or the fraction <<num, den>>*)
(* in lowest terms.  A stored snippet is [mouse_id, idx, start_idx,        *)
(* end_idx, values]: its samples and the event it was cut around.          *)

\* Bound on the number of frames of a generated timeline.
MaxFrames == 3

Junk == <<0, 0>>

Text(v) == <<v, 1>>

is_text(x) == Len(x) = 2

RawLabels == {NaN, Cell(0), Cell(1)}

TextLabels == {NaN, Cell(1), Text(0), Text(1), Junk}

SecValues == {Cell(0 - 10), Cell(0)}

AllColumns == {"DS_470", "VS_470", "syllable_0", "SecFromInjection_fiber", "Genotype_syllable"}

\* pd.to_numeric(column, errors='coerce') on one cell
to_numeric(x) ==
    IF Len(x) = 1 THEN x
    ELSE IF is_text(x) /\ x # Junk THEN Cell(x[1])
    ELSE NaN

\* series.shift(1)
shift1(series) == [k \in 1..Len(series) |-> IF k = 1 THEN NaN ELSE series[k - 1]]

\* Elementwise != of two float cells: NaN differs from everything.
ne(a, b) == isna(a) \/ isna(b) \/ a # b

\* df['syllable_0'] after the coercion
labels_of(df) == [k \in 1..Len(df.rows) |-> to_numeric(df.rows[k].syllable_0)]

RECURSIVE last_valid(_, _)
\* The last non-missing label before frame k (NaN: none).
last_valid(series, k) ==
    IF k = 1 THEN NaN
    ELSE IF ~isna(series[k - 1]) THEN series[k - 1] ELSE last_valid(series, k - 1)

\* The label is compared with the last non-missing label before it.
counts_initiations_ffill(series) ==
    [k \in 1..Len(series) |-> ne(series[k], last_valid(series, k)) /\ ~isna(series[k])]

\* initiations of compute_syllable_counts (lines 39-41)
counts_initiations(series) ==
    [k \in 1..Len(series) |-> ne(series[k], shift1(series)[k]) /\ ~isna(series[k])]

\* initiations of extract_signal_snippets (lines 169-170)
snippet_initiations(series) ==
    [k \in 1..Len(series) |-> ne(series[k], shift1(series)[k]) /\ ~isna(series[k])]

\* series[mask].value_counts(): label -> number of selected frames with it
value_counts(series, mask) ==
    [v \in {series[k] : k \in {h \in 1..Len(series) : mask[h] /\ ~isna(series[h])}}
        |-> Cardinality({k \in 1..Len(series) : mask[k] /\ series[k] = v})]

RECURSIVE SumOver(_, _)
SumOver(f, S) == IF S = {} THEN 0 ELSE LET x == CHOOSE x \in S : TRUE IN f[x] + SumOver(f, S \ {x})

\* counts / total per label, or the empty Series when total is 0; a
\* proportion is kept as the pair <<count, total>>.
proportions(counts) ==
    LET total == SumOver(counts, DOMAIN counts)
    IN  IF total > 0 THEN [v \in DOMAIN counts |-> <<counts[v], total>>] ELSE EmptyDict

\* d[key] of a defaultdict(list)
list_of(d, key) == IF key \in DOMAIN d THEN d[key] ELSE <<>>

\* proportions.get(syllable, 0)
get_or_zero(props, syllable) == IF syllable \in DOMAIN props THEN props[syllable] ELSE <<0, 1>>

\* The raw labels of all subjects: df['syllable_0'].dropna().unique()
raw_syllables(dfs) ==
    UNION { {dfs[i].df.rows[k].syllable_0 : k \in 1..Len(dfs[i].df.rows)} \ {NaN} : i \in 1..Len(dfs) }

\* x <= y among numbers, or among texts (digits sort before letters)
cell_le(x, y) == IF x = Junk THEN y = Junk ELSE y = Junk \/ x[1] <= y[1]

RECURSIVE sorted_cells(_)
\* sorted(all_syllables) of cells that are all numbers or all texts
sorted_cells(S) ==
    IF S = {} THEN <<>>
    ELSE LET least == CHOOSE x \in S : \A y \in S : cell_le(x, y)
         IN  <<least>> \o sorted_cells(S \ {least})

\* Line 30 raises KeyError without the syllable_0 column; sorted() raises
\* TypeError when text and numbers are mixed.
counts_setup_raises(dfs) ==
    \/ \E i \in 1..Len(dfs) : "syllable_0" \notin dfs[i].df.columns
    \/ \E x, y \in raw_syllables(dfs) : is_text(x) /\ ~is_text(y)

\* compute_syllable_counts up to its loop (lines 24-32).
CountsCall ==
    /\ pcCounts = "ready"
    /\ pcSnippets # "loop"
    /\ IF counts_setup_raises(subject_dfs)
       THEN pcCounts' = "raised" /\ all_syllables' = <<>>
       ELSE /\ pcCounts' = "loop"
            /\ all_syllables' = sorted_cells(raw_syllables(subject_dfs))
    /\ UNCHANGED <<subject_dfs, parameters, counts_pos, initiations, num_initiations,
                   initiations_proportions, time_spent_proportions, snippetVars,
                   detectVars, batchVars, segmentVars, alignVars, rankVars, photometryVars, compareVars, loadVars>>

\* One iteration of the loop over merged_dfs.items() (lines 34-62); the
\* coercion of line 36 is written into the caller's table.
CountsStep ==
    /\ pcCounts = "loop"
    /\ counts_pos < Len(subject_dfs)
    /\ LET df == subject_dfs[counts_pos + 1].df
           syllable_series == labels_of(df)
           mask == counts_initiations(syllable_series)
           counted == value_counts(syllable_series, mask)
           time_spent == value_counts(syllable_series, [k \in 1..Len(syllable_series) |-> TRUE])
           proportions_initiations == proportions(counted)
           proportions_time_spent == proportions(time_spent)
       IN  /\ subject_dfs' = [subject_dfs EXCEPT ![counts_pos + 1].df.rows =
                                [k \in 1..Len(df.rows) |->
                                    [df.rows[k] EXCEPT !.syllable_0 = syllable_series[k]]]]
           /\ initiations' = mask
           /\ num_initiations' = counted
           /\ initiations_proportions' =
                [y \in Range(all_syllables) |->
                    Append(list_of(initiations_proportions, y), get_or_zero(proportions_initiations, y))]
           /\ time_spent_proportions' =
                [y \in Range(all_syllables) |->
                    Append(list_of(time_spent_proportions, y), get_or_zero(proportions_time_spent, y))]
    /\ counts_pos' = counts_pos + 1
    /\ UNCHANGED <<parameters, all_syllables, pcCounts, snippetVars,
                   detectVars, batchVars, segmentVars, alignVars, rankVars, photometryVars, compareVars, loadVars>>

\* return initiations_proportions, time_spent_proportions
CountsReturn ==
    /\ pcCounts = "loop"
    /\ counts_pos = Len(subject_dfs)
    /\ pcCounts' = "returned"
    /\ UNCHANGED <<subject_dfs, parameters, all_syllables, counts_pos, initiations, num_initiations,
                   initiations_proportions, time_spent_proportions, snippetVars,
                   detectVars, batchVars, segmentVars, alignVars, rankVars, photometryVars, compareVars, loadVars>>

required_columns == {"DS_470", "VS_470", "syllable_0", "SecFromInjection_fiber"}

pre_injection_window_start == 0 - 25

pre_injection_window_end == 0 - 5

post_injection_window_start == 10

post_injection_window_end == 40

\* Label 40 is looked for as well.
top_syllables_through_40 == 0..40

top_syllables == 0..39

\* The bounds of the phase windows are excluded.
injection_phase_exclusive(sec) ==
    IF isna(sec) THEN "none"
    ELSE IF pre_injection_window_start < sec[1] /\ sec[1] < pre_injection_window_end THEN "pre"
    ELSE IF post_injection_window_start < sec[1] /\ sec[1] < post_injection_window_end THEN "post"
    ELSE "none"

\* The phase of an event by its SecFromInjection_fiber cell; "none" when the
\* event is skipped (every comparison with NaN is False).
injection_phase(sec) ==
    IF isna(sec) THEN "none"
    ELSE IF pre_injection_window_start <= sec[1] /\ sec[1] <= pre_injection_window_end THEN "pre"
    ELSE IF post_injection_window_start <= sec[1] /\ sec[1] <= post_injection_window_end THEN "post"
    ELSE "none"

\* genotype = str(df['Genotype_syllable'].iloc[0]) if the column is there
genotype_of(df) == IF "Genotype_syllable" \in df.columns THEN df.genotype ELSE "Unknown"

\* .iloc[0] of a table without rows raises IndexError.
genotype_raises(df) == "Genotype_syllable" \in df.columns /\ df.rows = <<>>

\* A window that reaches one frame past the end is let through.
window_fits_past_end(idx, m, n, len) == idx - m >= 0 /\ idx + n <= len

\* start_idx >= 0 and end_idx < len(df)
window_fits(idx, m, n, len) == idx - m >= 0 /\ idx + n < len

Abs(a) == IF a < 0 THEN 0 - a ELSE a

RECURSIVE gcd(_, _)
gcd(a, b) == IF b = 0 THEN a ELSE gcd(b, a % b)

\* The fraction n / d (d > 0) in lowest terms.
Frac(n, d) == LET g == gcd(Abs(n), d) IN << n \div g, d \div g >>

\* a - b of two samples; NaN when either is NaN.
frac_sub(a, b) ==
    IF isna(a) \/ isna(b) THEN NaN
    ELSE Frac(a[1] * b[2] - b[1] * a[2], a[2] * b[2])

\* The mean of the samples of xs at the positions K that are not NaN; NaN
\* when there is none (min_periods=1).
mean_of(xs, K) ==
    LET valid == {k \in K : ~isna(xs[k])}
    IN  IF valid = {} THEN NaN
        ELSE Frac(SumOver([k \in valid |-> xs[k][1]], valid), Cardinality(valid))

\* Sample k is the mean of the samples of the width-w range centered on k.
rolling_mean_centered(xs, w) ==
    [k \in 1..Len(xs) |->
        mean_of(xs, Max(1, k - ((w - 1) \div 2))..Min(Len(xs), k + ((w - 1) \div 2)))]

\* pd.Series(xs).rolling(window=w, min_periods=1).mean(): sample k is the
\* mean of the w samples ending at k.
rolling_mean(xs, w) ==
    [k \in 1..Len(xs) |-> mean_of(xs, Max(1, k - w + 1)..k)]

\* xs[i] raises IndexError for an index outside -len .. len - 1.
index_raises(len, i) == i >= len \/ i < 0 - len

\* xs[i] of a numpy array: a negative index counts from the end.
np_at(xs, i) == IF i >= 0 THEN xs[i + 1] ELSE xs[Len(xs) + i + 1]

\* snippet_rolled - snippet_rolled[normalization_frame]
normalize(rolled, normalization_frame) ==
    [k \in 1..Len(rolled) |-> frac_sub(rolled[k], np_at(rolled, normalization_frame))]

\* series.iloc[a:b].values for 0 <= a
iloc_slice(xs, a, b) == SubSeq(xs, a + 1, Min(b, Len(xs)))

\* The column of a timeline as a sequence of cells.
column_of(df, name) == [k \in 1..Len(df.rows) |-> df.rows[k][name]]

\* The normalized snippet of one channel around idx (lines 203-215).
snippet_values(df, channel, idx, p) ==
    normalize(rolling_mean(iloc_slice(column_of(df, channel), idx - p.m, idx + p.n + 1),
                           p.window_size),
              p.normalization_frame)

\* The 0-based indices of the events of one syllable that pass the phase
\* and the window checks, in index order (lines 182-201).
event_indices(df, syllable, p) ==
    LET labels == labels_of(df)
        mask == snippet_initiations(labels)
        kept(idx) ==
            /\ mask[idx + 1]
            /\ labels[idx + 1] = Cell(syllable)
            /\ injection_phase(to_numeric(df.rows[idx + 1].SecFromInjection_fiber)) # "none"
            /\ window_fits(idx, p.m, p.n, Len(df.rows))
    IN  SelectSeq([k \in 1..Len(df.rows) |-> k - 1], kept)

\* A snippet of the subject is normalized with a frame that is not in its
\* window: IndexError at line 211.
normalization_raises(df, p) ==
    \E syllable \in top_syllables :
        LET indices == event_indices(df, syllable, p)
        IN  \E j \in 1..Len(indices) :
                index_raises(Len(iloc_slice(column_of(df, "DS_470"),
                                            indices[j] - p.m, indices[j] + p.n + 1)),
                             p.normalization_frame)

\* The snippets of one syllable in one channel with their bucket keys
\* (lines 182-221).
syllable_events(mouse_id, df, syllable, p, channel) ==
    LET indices == event_indices(df, syllable, p)
    IN  [j \in 1..Len(indices) |->
            [key |-> << genotype_of(df),
                        injection_phase(to_numeric(df.rows[indices[j] + 1].SecFromInjection_fiber)),
                        syllable >>,
             snippet |-> [mouse_id |-> mouse_id, idx |-> indices[j],
                          start_idx |-> indices[j] - p.m, end_idx |-> indices[j] + p.n,
                          values |-> snippet_values(df, channel, indices[j], p)]]]

RECURSIVE subject_events(_, _, _, _, _)
\* The loop over top_syllables, from syllable on.
subject_events(mouse_id, df, syllable, p, channel) ==
    IF syllable \notin top_syllables THEN <<>>
    ELSE syllable_events(mouse_id, df, syllable, p, channel)
            \o subject_events(mouse_id, df, syllable + 1, p, channel)

RECURSIVE append_all_overwrite(_, _, _)
\* Each event replaces the list of its bucket.
append_all_overwrite(snippets, events, k) ==
    IF k > Len(events) THEN snippets
    ELSE append_all_overwrite(DictSet(snippets, events[k].key, << events[k].snippet >>),
                              events, k + 1)

RECURSIVE append_all(_, _, _)
\* syllable_snippets[genotype][injection_phase][syllable].append(...) for
\* the events from the k-th on.
append_all(snippets, events, k) ==
    IF k > Len(events) THEN snippets
    ELSE append_all(DictSet(snippets, events[k].key,
                            Append(list_of(snippets, events[k].key), events[k].snippet)),
                    events, k + 1)

\* The VS_470 snippets of a subject, those with a missing first sample
\* left out.
vs_events_valid_only(mouse_id, df, p) ==
    LET valid(ev) == ev.snippet.values[1] # NaN
    IN  SelectSeq(subject_events(mouse_id, df, 0, p, "VS_470"), valid)

\* The DS_470 snippets of a subject, in the order they are appended.
ds_events(mouse_id, df, p) == subject_events(mouse_id, df, 0, p, "DS_470")

\* The VS_470 snippets of a subject, in the order they are appended.
vs_events(mouse_id, df, p) == subject_events(mouse_id, df, 0, p, "VS_470")

\* extract_signal_snippets up to its loop (lines 141-150).
SnippetsCall ==
    /\ pcSnippets = "ready"
    /\ pcCounts # "loop"
    /\ pcSnippets' = "loop"
    /\ UNCHANGED <<subject_dfs, parameters, countsVars, snippets_pos,
                   syllable_snippets_DS, syllable_snippets_VS,
                   detectVars, batchVars, segmentVars, alignVars, rankVars, photometryVars, compareVars, loadVars>>

\* One iteration of the loop over merged_dfs.items() (lines 152-221); the
\* coercions are made on the copy of line 156.  An exception leaves the
\* function: nothing is returned.
SnippetsStep ==
    /\ pcSnippets = "loop"
    /\ snippets_pos < Len(subject_dfs)
    /\ LET mouse_id == subject_dfs[snippets_pos + 1].id
           df == subject_dfs[snippets_pos + 1].df
       IN  IF genotype_raises(df)
           THEN /\ pcSnippets' = "raised"
                /\ UNCHANGED <<syllable_snippets_DS, syllable_snippets_VS>>
           ELSE IF ~(required_columns \subseteq df.columns)
           THEN UNCHANGED <<syllable_snippets_DS, syllable_snippets_VS, pcSnippets>>
           ELSE IF normalization_raises(df, parameters)
           THEN /\ pcSnippets' = "raised"
                /\ UNCHANGED <<syllable_snippets_DS, syllable_snippets_VS>>
           ELSE /\ syllable_snippets_DS' =
                      append_all(syllable_snippets_DS, ds_events(mouse_id, df, parameters), 1)
                /\ syllable_snippets_VS' =
                      append_all(syllable_snippets_VS, vs_events(mouse_id, df, parameters), 1)
                /\ UNCHANGED pcSnippets
    /\ snippets_pos' = snippets_pos + 1
    /\ UNCHANGED <<subject_dfs, parameters, countsVars,
                   detectVars, batchVars, segmentVars, alignVars, rankVars, photometryVars, compareVars, loadVars>>

\* The stacking of every bucket and the return (lines 223-232).
SnippetsReturn ==
    /\ pcSnippets = "loop"
    /\ snippets_pos = Len(subject_dfs)
    /\ pcSnippets' = "returned"
    /\ UNCHANGED <<subject_dfs, parameters, countsVars, snippets_pos,
                   syllable_snippets_DS, syllable_snippets_VS,
                   detectVars, batchVars, segmentVars, alignVars, rankVars, photometryVars, compareVars, loadVars>>

\* Generated timelines and parameters.
Frame(label, sec, ds, vs) ==
    [syllable_0 |-> label, SecFromInjection_fiber |-> sec, DS_470 |-> ds, VS_470 |-> vs]

Timeline(columns, genotype, rows) == [columns |-> columns, genotype |-> genotype, rows |-> rows]

Parameters(m, n, normalization_frame, window_size) ==
    [m |-> m, n |-> n, normalization_frame |-> normalization_frame, window_size |-> window_size]

Input(dfs, p) == [dfs |-> dfs, parameters |-> p]

One(df) == << [id |-> "m1", df |-> df] >>

\* The signals of a timeline whose labels are what varies.
Ramp(k) == Cell(k * k)

\* One subject, every sequence of labels and times up to MaxFrames frames.
LabelInputs ==
    { Input(One(Timeline(AllColumns, "WT",
                         [k \in 1..Len(f) |-> Frame(f[k][1], f[k][2], Ramp(k), Cell(k))])),
            Parameters(m, n, 0, 3)) :
        f \in SeqsUpTo(RawLabels \X SecValues, MaxFrames), m \in {0, 1}, n \in {0, 1} }

\* One subject whose label column holds text.
TextInputs ==
    { Input(One(Timeline(AllColumns, "WT",
                         [k \in 1..Len(f) |-> Frame(f[k], Cell(0 - 10), Ramp(k), Cell(k))])),
            Parameters(0, 0, 0, 1)) :
        f \in SeqsUpTo(TextLabels, 2) }

\* Times at, next to and between the bounds of the phase windows.
PhaseTimes ==
    { NaN, Cell(0 - 26), Cell(0 - 25), Cell(0 - 15), Cell(0 - 5), Cell(0 - 4),
      Cell(9), Cell(10), Cell(25), Cell(40), Cell(41) }

\* One subject with one or two events at those times.
PhaseInputs ==
    { Input(One(Timeline(AllColumns, "WT",
                         [k \in 1..Len(f) |-> Frame(Cell(k - 1), f[k], Ramp(k), Cell(k))])),
            Parameters(0, 0, 0, 1)) :
        f \in SeqsUpTo(PhaseTimes, 2) }

\* The DS_470 and VS_470 samples of a generated frame.
SignalFrames == { <<NaN, Cell(2)>>, <<Cell(1), NaN>>, <<Cell(3), Cell(2)>>, <<Cell(1), Cell(4)>> }

SmoothingParameters ==
    { Parameters(m, n, nw[1], nw[2]) :
        m \in {0, 1}, n \in {0, 1}, nw \in { <<0, 3>>, <<1, 1>>, <<0 - 1, 3>> } }

\* One subject whose every frame starts a new label in the pre window, with
\* every signal up to MaxFrames frames.
SignalInputs ==
    { Input(One(Timeline(AllColumns, "WT",
                         [k \in 1..Len(f) |-> Frame(Cell(k % 2), Cell(0 - 10), f[k][1], f[k][2])])),
            p) :
        f \in SeqsUpTo(SignalFrames, MaxFrames), p \in SmoothingParameters }

Steady(label, n) == [k \in 1..n |-> Frame(Cell(label), Cell(0 - 10), Ramp(k), Cell(k))]

TimelineCatalogue ==
    { Timeline(AllColumns, "WT",
               << Frame(Cell(0), Cell(0 - 10), Cell(1), Cell(2)),
                  Frame(Cell(1), Cell(0 - 10), Cell(3), NaN),
                  Frame(Cell(0), Cell(25), Cell(5), Cell(4)) >>),
      Timeline(AllColumns, "KO",
               << Frame(Cell(0), Cell(0 - 10), Cell(2), Cell(2)),
                  Frame(Cell(1), Cell(0 - 10), Cell(4), Cell(6)) >>),
      Timeline(AllColumns \ {"Genotype_syllable"}, "WT", Steady(1, 2)),
      Timeline(AllColumns \ {"DS_470"}, "KO", Steady(0, 2)),
      Timeline(AllColumns \ {"SecFromInjection_fiber"}, "KO", <<>>),
      Timeline(AllColumns, "KO", <<>>) }

\* Two subjects, each from the catalogue.
BatchTimelineInputs ==
    { Input(<< [id |-> "m1", df |-> a], [id |-> "m2", df |-> b] >>, Parameters(m, 0, nf, 1)) :
        a \in TimelineCatalogue, b \in TimelineCatalogue, m \in {0, 1}, nf \in {0, 1} }

\* Labels at and beyond the ends of top_syllables.
EdgeLabels == { Cell(0 - 1), Cell(39), Cell(40) }

\* One subject with one or two events of those labels.
EdgeLabelInputs ==
    { Input(One(Timeline(AllColumns, "WT",
                         [k \in 1..Len(f) |-> Frame(f[k], Cell(0 - 10), Ramp(k), Cell(k))])),
            Parameters(0, 0, 0, 1)) :
        f \in SeqsUpTo(EdgeLabels, 2) }

TimelineInputs ==
    LabelInputs \cup TextInputs \cup PhaseInputs \cup SignalInputs \cup BatchTimelineInputs
        \cup EdgeLabelInputs

NextSyllables ==
    \/ CountsCall \/ CountsStep \/ CountsReturn
    \/ SnippetsCall \/ SnippetsStep \/ SnippetsReturn

----------------------------------------------------------------------------
(* rank_syllables: Borda count over the two proportion dicts, which are    *)
(* the variables initiations_proportions and time_spent_proportions.  A    *)
(* proportion is a pair <<count, total>>, an average a fraction in lowest  *)
(* terms.                                                                  *)

\* Bound on the number of labels of a generated dict.
MaxLabels == 3

frac_add(a, b) == Frac(a[1] * b[2] + b[1] * a[2], a[2] * b[2])

frac_less(a, b) == a[1] * b[2] < b[1] * a[2]

RECURSIVE frac_sum(_, _)
frac_sum(xs, k) == IF k > Len(xs) THEN Frac(0, 1) ELSE frac_add(xs[k], frac_sum(xs, k + 1))

\* The mean over the entries that are not 0.
mean_of_nonzero(xs) ==
    LET present == SelectSeq(xs, LAMBDA x : x[1] # 0)
    IN  IF present = <<>> THEN Frac(0, 1)
        ELSE Frac(frac_sum(present, 1)[1], frac_sum(present, 1)[2] * Len(present))

\* np.mean(xs) if xs else 0
mean_or_zero(xs) ==
    IF xs = <<>> THEN Frac(0, 1)
    ELSE Frac(frac_sum(xs, 1)[1], frac_sum(xs, 1)[2] * Len(xs))

\* avg.items(): the (label, average) pairs in insertion order
items_of(avg, syllables) == [k \in 1..Len(syllables) |-> << syllables[k], avg[syllables[k]] >>]

\* r put into a descending list, before the items that are not above it.
insert_descending_before_equals(sorted, r) ==
    LET lower == {h \in 1..Len(sorted) : ~frac_less(r[2], sorted[h][2])}
        at == IF lower = {} THEN Len(sorted) + 1 ELSE CHOOSE h \in lower : \A g \in lower : h <= g
    IN  SubSeq(sorted, 1, at - 1) \o <<r>> \o SubSeq(sorted, at, Len(sorted))

\* r put into a descending list, after the items that are not below it.
insert_descending(sorted, r) ==
    LET lower == {h \in 1..Len(sorted) : frac_less(sorted[h][2], r[2])}
        at == IF lower = {} THEN Len(sorted) + 1 ELSE CHOOSE h \in lower : \A g \in lower : h <= g
    IN  SubSeq(sorted, 1, at - 1) \o <<r>> \o SubSeq(sorted, at, Len(sorted))

RECURSIVE sorted_reverse_from(_, _, _)
sorted_reverse_from(items, k, sorted) ==
    IF k > Len(items) THEN sorted
    ELSE sorted_reverse_from(items, k + 1, insert_descending(sorted, items[k]))

\* sorted(items, key=lambda x: x[1], reverse=True): stable, equal items
\* keep their order.
sorted_reverse(items) == sorted_reverse_from(items, 1, <<>>)

\* The place (1-based) of a label in a list of (label, value) pairs.
place_of(items, syllable) == CHOOSE k \in 1..Len(items) : items[k][1] = syllable

\* The last label of a list gets no point.
borda_points_from_zero(num_syllables, rank) == num_syllables - rank - 1

\* points = num_syllables - rank
borda_points(num_syllables, rank) == num_syllables - rank

\* borda_scores after the two loops of lines 105-111, in insertion order.
borda_items(by_initiations, by_time_spent, num_syllables) ==
    [k \in 1..Len(by_initiations) |->
        << by_initiations[k][1],
           borda_points(num_syllables, k - 1)
             + borda_points(num_syllables, place_of(by_time_spent, by_initiations[k][1]) - 1) >>]

\* sorted(borda_scores.items(), key=lambda x: x[1], reverse=True)
ranking_of(scores) ==
    LET keyed == sorted_reverse([k \in 1..Len(scores) |-> << scores[k][1], Frac(scores[k][2], 1) >>])
    IN  [k \in 1..Len(keyed) |-> << keyed[k][1], keyed[k][2][1] >>]

\* One call of rank_syllables (lines 85-116).
RankSyllables ==
    /\ pcRank = "ready"
    /\ LET syllables == sorted_cells(DOMAIN initiations_proportions)
           num_syllables == Len(syllables)
           avg_init == [y \in Range(syllables) |-> mean_or_zero(initiations_proportions[y])]
           avg_time == [y \in Range(syllables) |-> mean_or_zero(time_spent_proportions[y])]
           by_initiations == sorted_reverse(items_of(avg_init, syllables))
           by_time_spent == sorted_reverse(items_of(avg_time, syllables))
           scores == borda_items(by_initiations, by_time_spent, num_syllables)
       IN  /\ avg_initiations_proportions' = avg_init
           /\ avg_time_spent_proportions' = avg_time
           /\ sorted_initiations' = by_initiations
           /\ sorted_time_spent' = by_time_spent
           /\ borda_scores' = scores
           /\ final_ranking' = ranking_of(scores)
    /\ pcRank' = "returned"
    /\ UNCHANGED <<detectVars, batchVars, segmentVars, alignVars, syllableVars, photometryVars, compareVars, loadVars>>

\* Generated proportion lists: of no, one and two subjects.
ProportionLists == { <<>>, << <<1, 2>> >>, << <<1, 1>> >>, << <<1, 3>>, <<1, 1>> >> }

LabelKeys(n) == {Cell(y) : y \in 0..(n - 1)}

NextRank == RankSyllables

----------------------------------------------------------------------------
(* compute_photometry_distance_matrix, up to the mean signatures.  The     *)
(* nested dict of snippets is the list of its buckets [genotype, phase,    *)
(* syllable, snippets] in iteration order; a snippet is a sequence of      *)
(* numbers, a mean snippet a sequence of fractions in lowest terms.        *)

\* Bound on the number of snippets of a generated bucket.
MaxSnippets == 2

RECURSIVE gather_signatures(_, _, _, _, _)
\* The loops of lines 69-80 over the buckets from the k-th on.
gather_signatures(buckets, k, allowed, least, signatures) ==
    IF k > Len(buckets) THEN signatures
    ELSE LET b == buckets[k]
         IN  IF ~allowed.none /\ b.syllable \notin Range(allowed.val)
             THEN gather_signatures(buckets, k + 1, allowed, least, signatures)
             ELSE IF Len(b.snippets) < least
             THEN gather_signatures(buckets, k + 1, allowed, least, signatures)
             ELSE gather_signatures(buckets, k + 1, allowed, least,
                     DictSet(signatures, b.syllable,
                             list_of(signatures, b.syllable) \o b.snippets))

\* np.mean(snippets, axis=0)
mean_axis0(snippets) ==
    [j \in 1..Len(snippets[1]) |->
        Frac(SumOver([k \in 1..Len(snippets) |-> snippets[k][j]], 1..Len(snippets)),
             Len(snippets))]

RECURSIVE sorted_labels(_)
\* sorted(syllable_means.keys())
sorted_labels(S) ==
    IF S = {} THEN <<>>
    ELSE LET least == CHOOSE x \in S : \A y \in S : x <= y
         IN  <<least>> \o sorted_labels(S \ {least})

\* One call of compute_photometry_distance_matrix, lines 67-93.
ComputePhotometry ==
    /\ pcPhotometry = "ready"
    /\ LET signatures == gather_signatures(syllable_snippets, 1, allowed_syllables,
                                           min_snippets, EmptyDict)
           means == [y \in {x \in DOMAIN signatures : signatures[x] # <<>>} |->
                        mean_axis0(signatures[y])]
       IN  /\ photometry_signatures' = signatures
           /\ syllable_means' = means
           /\ syllables_photometry' = sorted_labels(DOMAIN means)
    /\ pcPhotometry' = "returned"
    /\ UNCHANGED <<syllable_snippets, allowed_syllables, min_snippets,
                   detectVars, batchVars, segmentVars, alignVars, syllableVars, rankVars,
                   compareVars, loadVars>>

\* Generated buckets: three keys, two of them of label 0.
BucketKeys == << <<"WT", "pre", 0>>, <<"KO", "post", 0>>, <<"WT", "pre", 1>> >>

SnippetChoices == { <<0, 2>>, <<4, 0>> }

\* The buckets that hold the lists ls, a key with no snippet left out.
BucketsOf(ls) ==
    LET all == [k \in 1..Len(BucketKeys) |->
                   [genotype |-> BucketKeys[k][1], phase |-> BucketKeys[k][2],
                    syllable |-> BucketKeys[k][3], snippets |-> ls[k]]]
        filled(b) == b.snippets # <<>>
    IN  SelectSeq(all, filled)

SnippetInputs ==
    { BucketsOf(ls) : ls \in [1..Len(BucketKeys) -> SeqsUpTo(SnippetChoices, MaxSnippets)] }

AllowLists == { None, Some(<<0>>), Some(<<0, 1>>) }

NextPhotometry == ComputePhotometry

----------------------------------------------------------------------------
(* compare_distance_matrices: a file of behavior_data is a record of its     *)
(* name, its 'distances' (None when they are not an array) and its         *)
(* 'syllable_ixs'; a matrix is a sequence of rows.  The statistics are      *)
(* functions of the two vectors handed to spearmanr, which are what a      *)
(* comparison records.                                                     *)

\* Bound on the number of files of a generated batch.
MaxFiles == 2

\* [s for s in syllables_behavior if s in top_syllables], or the list
\* itself when top_syllables is None (lines 142-143)
only_top(syllables_behavior, top) ==
    IF top.none THEN syllables_behavior
    ELSE SelectSeq(syllables_behavior, LAMBDA y : y \in Range(top.val))

\* sorted(set(syllables_behavior).intersection(syllables_photometry))
common_of(syllables_behavior, photometry) ==
    sorted_labels(Range(syllables_behavior) \cap Range(photometry))

\* list.index(y): the 0-based position of the first y
index_of(list, y) == (CHOOSE k \in 1..Len(list) : list[k] = y /\ \A h \in 1..(k - 1) : list[h] # y) - 1

\* [list.index(y) for y in common_syllables]
indices_in(list, common_syllables) ==
    [k \in 1..Len(common_syllables) |-> index_of(list, common_syllables[k])]

\* matrix[np.ix_(indices, indices)]
ix_(matrix, indices) ==
    [a \in 1..Len(indices) |-> [b \in 1..Len(indices) |-> matrix[indices[a] + 1][indices[b] + 1]]]

RECURSIVE triu_from(_, _, _)
\* The entries above the diagonal, row by row, from row a and column b on.
triu_from(sub, a, b) ==
    IF a > Len(sub) THEN <<>>
    ELSE IF b > Len(sub) THEN triu_from(sub, a + 1, a + 2)
    ELSE <<sub[a][b]>> \o triu_from(sub, a, b + 1)

\* sub[np.triu_indices(len(sub), k=1)]
triu(sub) == triu_from(sub, 1, 2)

\* behavior_indices (line 155): positions in the list left by the allow-list
behavior_indices(syllables_behavior, common_syllables) ==
    indices_in(syllables_behavior, common_syllables)

\* One common label is taken as enough.
too_few_below_one(common_syllables) == Len(common_syllables) < 1

\* len(common_syllables) < 2 (line 147)
too_few(common_syllables) == Len(common_syllables) < 2

\* The early return of lines 129-131, else the loop.
CompareCall ==
    /\ pcCompare = "ready"
    /\ pcCompare' = IF photometry_distances.none \/ syllables_photometry = <<>>
                    THEN "returned" ELSE "loop"
    /\ UNCHANGED <<behavior_data, photometry_distances, compare_pos, comparisons, diagnostics,
                   detectVars, batchVars, segmentVars, alignVars, syllableVars, rankVars,
                   photometryVars, loadVars>>

\* One iteration of the loop over behavior_data.items() (lines 133-165).
CompareStep ==
    /\ pcCompare = "loop"
    /\ compare_pos < Len(behavior_data)
    /\ LET data == behavior_data[compare_pos + 1]
           syllables_behavior == only_top(data.syllable_ixs, allowed_syllables)
           common_syllables == common_of(syllables_behavior, syllables_photometry)
           behavior_sub == ix_(data.distances.val,
                               behavior_indices(syllables_behavior, common_syllables))
           photometry_sub == ix_(photometry_distances.val,
                                 indices_in(syllables_photometry, common_syllables))
       IN  IF data.distances.none
           THEN /\ diagnostics' = Append(diagnostics, [file |-> data.file, warning |-> "not an array"])
                /\ UNCHANGED comparisons
           ELSE IF too_few(common_syllables)
           THEN /\ diagnostics' = Append(diagnostics,
                                         [file |-> data.file, warning |-> "not enough common syllables"])
                /\ UNCHANGED comparisons
           ELSE /\ comparisons' = Append(comparisons,
                                         [file |-> data.file,
                                          common_syllables |-> common_syllables,
                                          behavior_vec |-> triu(behavior_sub),
                                          photometry_vec |-> triu(photometry_sub)])
                /\ UNCHANGED diagnostics
    /\ compare_pos' = compare_pos + 1
    /\ UNCHANGED <<behavior_data, photometry_distances, pcCompare,
                   detectVars, batchVars, segmentVars, alignVars, syllableVars, rankVars,
                   photometryVars, loadVars>>

\* The end of the loop: the function returns None.
CompareReturn ==
    /\ pcCompare = "loop"
    /\ compare_pos = Len(behavior_data)
    /\ pcCompare' = "returned"
    /\ UNCHANGED <<behavior_data, photometry_distances, compare_pos, comparisons, diagnostics,
                   detectVars, batchVars, segmentVars, alignVars, syllableVars, rankVars,
                   photometryVars, loadVars>>

\* The labels of the generated label lists.
CompareLabels == 0..(MaxLabels - 1)

\* A symmetric distance matrix over n labels with zero diagonal, the
\* distance of the i-th and the j-th label different for every pair.
distance_matrix(n, base) ==
    [i \in 1..n |-> [j \in 1..n |->
        IF i = j THEN 0 ELSE base + (MaxLabels + 2) * Min(i, j) + Max(i, j)]]

\* Lists of distinct labels, in any order.
LabelLists == {l \in SeqsUpTo(CompareLabels, MaxLabels) : \A j, k \in 1..Len(l) : l[j] = l[k] => j = k}

\* A file with its matrix over its own labels.
BehaviorFile(file, syllable_ixs, is_array) ==
    [file |-> file,
     distances |-> IF is_array THEN Some(distance_matrix(Len(syllable_ixs), 0)) ELSE None,
     syllable_ixs |-> syllable_ixs]

\* Files of a batch: three labels in their order, the last label first, a
\* single label, and distances that are no array.
FileCatalogue ==
    << [syllable_ixs |-> <<0, 1, 2>>, is_array |-> TRUE],
       [syllable_ixs |-> <<2, 0, 1>>, is_array |-> TRUE],
       [syllable_ixs |-> <<0>>, is_array |-> TRUE],
       [syllable_ixs |-> <<0, 1>>, is_array |-> FALSE] >>

FileNames == <<"f1", "f2", "f3", "f4">>

\* One file of any label list, or up to MaxFiles files of the catalogue.
BehaviorInputs ==
    { <<BehaviorFile(FileNames[1], l, a)>> : l \in LabelLists, a \in BOOLEAN }
      \cup { [k \in 1..Len(c) |->
                BehaviorFile(FileNames[k], FileCatalogue[c[k]].syllable_ixs, FileCatalogue[c[k]].is_array)] :
             c \in SeqsUpTo(1..Len(FileCatalogue), MaxFiles) }

\* The photometry labels (sorted) with their matrix, or no matrix.
PhotometryInputs ==
    { [syllables |-> sorted_labels(S),
       distances |-> Some(distance_matrix(Cardinality(S), (MaxLabels + 2) * (MaxLabels + 2)))] :
        S \in SUBSET CompareLabels }
      \cup { [syllables |-> l, distances |-> None] : l \in { <<>>, <<0, 1>> } }

NextCompare == CompareCall \/ CompareStep \/ CompareReturn

----------------------------------------------------------------------------
(* load_syllable_data: a group of the file is a record of its name, a       *)
(* sequence of characters, and its datasets, each with its name, its       *)
(* number of dimensions and its number of columns.  A table is recorded    *)
(* with the group it was read from and its column names, a column name     *)
(* f"{dataset_name}_{i}" as the pair of the dataset name and i.            *)

\* Bound on the number of groups of a generated file.
MaxGroups == 2

Digits == {"0", "1", "2", "3", "4", "5", "6", "7", "8", "9"}

\* The number of digits of name from its second character on.
digits_after_T(name) ==
    LET ends == {k \in 1..Len(name) : \A h \in 2..k : name[h] \in Digits}
    IN  (CHOOSE k \in ends : \A h \in ends : h <= k) - 1

\* re.compile(r'^T(\d+)_').match(group_name)
pattern_matches(name) ==
    /\ Len(name) >= 3
    /\ name[1] = "T"
    /\ digits_after_T(name) >= 1
    /\ Len(name) >= digits_after_T(name) + 2
    /\ name[digits_after_T(name) + 2] = "_"

\* match.group(1)
mouse_id_of(name) == SubSeq(name, 2, digits_after_T(name) + 1)

\* dataset_name.startswith('latent_state')
is_latent_state(dataset_name) == dataset_name = "latent_state"

\* The datasets of a group that are read (lines 46-49).
datasets_read(group, include) ==
    SelectSeq(group.datasets, LAMBDA d : include \/ ~is_latent_state(d.name))

\* The columns of a dataset: one of a 1D dataset, shape[1] of a 2D one
\* (lines 54-58).
columns_of(d) == [i \in 1..(IF d.ndim = 1 THEN 1 ELSE d.num_cols) |-> <<d.name, i - 1>>]

RECURSIVE concat_columns(_, _)
\* pd.concat(df_list, axis=1) of the datasets from the k-th on
concat_columns(ds, k) == IF k > Len(ds) THEN <<>> ELSE columns_of(ds[k]) \o concat_columns(ds, k + 1)

\* mouse_id in syllable_dfs (line 40)
duplicate(mouse_id, stored) == mouse_id \in DOMAIN stored

\* The file is opened and the loop over file.keys() entered (lines 26-30).
LoadCall ==
    /\ pcLoad = "ready"
    /\ pcLoad' = "loop"
    /\ UNCHANGED <<groups, include_latent_state, load_pos, load_syllable_dfs, load_returned,
                   detectVars, batchVars, segmentVars, alignVars, syllableVars, rankVars,
                   photometryVars, compareVars>>

\* One iteration of the loop over the groups (lines 30-68).
LoadStep ==
    /\ pcLoad = "loop"
    /\ load_pos < Len(groups)
    /\ LET group == groups[load_pos + 1]
           mouse_id == mouse_id_of(group.name)
           df_list == datasets_read(group, include_latent_state)
       IN  IF ~pattern_matches(group.name)
           THEN UNCHANGED <<load_syllable_dfs, pcLoad>>
           ELSE IF duplicate(mouse_id, load_syllable_dfs)
           THEN pcLoad' = "raised" /\ UNCHANGED load_syllable_dfs
           ELSE IF df_list # <<>>
           THEN /\ load_syllable_dfs' =
                      DictSet(load_syllable_dfs, mouse_id,
                              [group |-> group.name, columns |-> concat_columns(df_list, 1)])
                /\ UNCHANGED pcLoad
           ELSE UNCHANGED <<load_syllable_dfs, pcLoad>>
    /\ load_pos' = load_pos + 1
    /\ UNCHANGED <<groups, include_latent_state, load_returned,
                   detectVars, batchVars, segmentVars, alignVars, syllableVars, rankVars,
                   photometryVars, compareVars>>

\* return syllable_dfs
LoadReturn ==
    /\ pcLoad = "loop"
    /\ load_pos = Len(groups)
    /\ pcLoad' = "returned"
    /\ load_returned' = Some(load_syllable_dfs)
    /\ UNCHANGED <<groups, include_latent_state, load_pos, load_syllable_dfs,
                   detectVars, batchVars, segmentVars, alignVars, syllableVars, rankVars,
                   photometryVars, compareVars>>

\* Group names: two of subject 1, one of subject 2, one of subject 12, and
\* four that the pattern does not match.
GroupNames ==
    { <<"T", "1", "_", "a">>, <<"T", "1", "_", "b">>, <<"T", "2", "_", "a">>,
      <<"T", "1", "2", "_">>, <<"X", "1", "_", "a">>, <<"T", "_", "a">>,
      <<"T", "1", "a">>, <<"T", "1">> }

\* The datasets of a group, in key order.
DatasetLists ==
    { <<>>,
      << [name |-> "syllable", ndim |-> 1, num_cols |-> 0] >>,
      << [name |-> "latent_state", ndim |-> 2, num_cols |-> 2] >>,
      << [name |-> "latent_state", ndim |-> 2, num_cols |-> 2],
         [name |-> "syllable", ndim |-> 1, num_cols |-> 0] >> }

\* Up to MaxGroups groups of different names.
GroupInputs ==
    { g \in SeqsUpTo([name : GroupNames, datasets : DatasetLists], MaxGroups) :
        \A j, k \in 1..Len(g) : g[j].name = g[k].name => j = k }

NextLoad == LoadCall \/ LoadStep \/ LoadReturn

----------------------------------------------------------------------------
(* Specifications: one per operation; the variables of the other           *)
(* operations stay idle.                                                   *)

\* the series is still to be supplied
InitDetect ==
    /\ coords = <<>>
    /\ detected = None
    /\ pcDetect = "build"
    /\ dirs = <<>>
    /\ dir_pos = 0
    /\ all_mouse_intervals = EmptyDict
    /\ all_mouse_intervals_timestamps = EmptyDict
    /\ pcBatch = "idle"
    /\ nan_intervals = <<>>
    /\ segments = None
    /\ pcSegments = "idle"
    /\ syllable_dfs = <<>>
    /\ tracking_dfs = EmptyDict
    /\ fiber_dfs = EmptyDict
    /\ merged_dfs = EmptyDict
    /\ align_pos = 0
    /\ pcAlign = "idle"
    /\ subject_dfs = <<>>
    /\ parameters = Parameters(0, 0, 0, 1)
    /\ all_syllables = <<>>
    /\ counts_pos = 0
    /\ initiations = <<>>
    /\ num_initiations = EmptyDict
    /\ initiations_proportions = EmptyDict
    /\ time_spent_proportions = EmptyDict
    /\ pcCounts = "idle"
    /\ snippets_pos = 0
    /\ syllable_snippets_DS = EmptyDict
    /\ syllable_snippets_VS = EmptyDict
    /\ pcSnippets = "idle"
    /\ avg_initiations_proportions = EmptyDict
    /\ avg_time_spent_proportions = EmptyDict
    /\ sorted_initiations = <<>>
    /\ sorted_time_spent = <<>>
    /\ borda_scores = <<>>
    /\ final_ranking = <<>>
    /\ pcRank = "idle"
    /\ syllable_snippets = <<>>
    /\ allowed_syllables = None
    /\ min_snippets = 1
    /\ photometry_signatures = EmptyDict
    /\ syllable_means = EmptyDict
    /\ syllables_photometry = <<>>
    /\ pcPhotometry = "idle"
    /\ behavior_data = <<>>
    /\ photometry_distances = None
    /\ compare_pos = 0
    /\ comparisons = <<>>
    /\ diagnostics = <<>>
    /\ pcCompare = "idle"
    /\ groups = <<>>
    /\ include_latent_state = TRUE
    /\ load_pos = 0
    /\ load_syllable_dfs = EmptyDict
    /\ load_returned = None
    /\ pcLoad = "idle"

SpecDetect == InitDetect /\ [][NextDetect]_vars

\* the directories are still to be listed
InitBatch ==
    /\ coords = <<>>
    /\ detected = None
    /\ pcDetect = "idle"
    /\ dirs = <<>>
    /\ dir_pos = 0
    /\ all_mouse_intervals = EmptyDict
    /\ all_mouse_intervals_timestamps = EmptyDict
    /\ pcBatch = "list"
    /\ nan_intervals = <<>>
    /\ segments = None
    /\ pcSegments = "idle"
    /\ syllable_dfs = <<>>
    /\ tracking_dfs = EmptyDict
    /\ fiber_dfs = EmptyDict
    /\ merged_dfs = EmptyDict
    /\ align_pos = 0
    /\ pcAlign = "idle"
    /\ subject_dfs = <<>>
    /\ parameters = Parameters(0, 0, 0, 1)
    /\ all_syllables = <<>>
    /\ counts_pos = 0
    /\ initiations = <<>>
    /\ num_initiations = EmptyDict
    /\ initiations_proportions = EmptyDict
    /\ time_spent_proportions = EmptyDict
    /\ pcCounts = "idle"
    /\ snippets_pos = 0
    /\ syllable_snippets_DS = EmptyDict
    /\ syllable_snippets_VS = EmptyDict
    /\ pcSnippets = "idle"
    /\ avg_initiations_proportions = EmptyDict
    /\ avg_time_spent_proportions = EmptyDict
    /\ sorted_initiations = <<>>
    /\ sorted_time_spent = <<>>
    /\ borda_scores = <<>>
    /\ final_ranking = <<>>
    /\ pcRank = "idle"
    /\ syllable_snippets = <<>>
    /\ allowed_syllables = None
    /\ min_snippets = 1
    /\ photometry_signatures = EmptyDict
    /\ syllable_means = EmptyDict
    /\ syllables_photometry = <<>>
    /\ pcPhotometry = "idle"
    /\ behavior_data = <<>>
    /\ photometry_distances = None
    /\ compare_pos = 0
    /\ comparisons = <<>>
    /\ diagnostics = <<>>
    /\ pcCompare = "idle"
    /\ groups = <<>>
    /\ include_latent_state = TRUE
    /\ load_pos = 0
    /\ load_syllable_dfs = EmptyDict
    /\ load_returned = None
    /\ pcLoad = "idle"

SpecBatch == InitBatch /\ [][NextBatch]_vars

\* the interval list is still to be supplied
InitSegments ==
    /\ coords = <<>>
    /\ detected = None
    /\ pcDetect = "idle"
    /\ dirs = <<>>
    /\ dir_pos = 0
    /\ all_mouse_intervals = EmptyDict
    /\ all_mouse_intervals_timestamps = EmptyDict
    /\ pcBatch = "idle"
    /\ nan_intervals = <<>>
    /\ segments = None
    /\ pcSegments = "build"
    /\ syllable_dfs = <<>>
    /\ tracking_dfs = EmptyDict
    /\ fiber_dfs = EmptyDict
    /\ merged_dfs = EmptyDict
    /\ align_pos = 0
    /\ pcAlign = "idle"
    /\ subject_dfs = <<>>
    /\ parameters = Parameters(0, 0, 0, 1)
    /\ all_syllables = <<>>
    /\ counts_pos = 0
    /\ initiations = <<>>
    /\ num_initiations = EmptyDict
    /\ initiations_proportions = EmptyDict
    /\ time_spent_proportions = EmptyDict
    /\ pcCounts = "idle"
    /\ snippets_pos = 0
    /\ syllable_snippets_DS = EmptyDict
    /\ syllable_snippets_VS = EmptyDict
    /\ pcSnippets = "idle"
    /\ avg_initiations_proportions = EmptyDict
    /\ avg_time_spent_proportions = EmptyDict
    /\ sorted_initiations = <<>>
    /\ sorted_time_spent = <<>>
    /\ borda_scores = <<>>
    /\ final_ranking = <<>>
    /\ pcRank = "idle"
    /\ syllable_snippets = <<>>
    /\ allowed_syllables = None
    /\ min_snippets = 1
    /\ photometry_signatures = EmptyDict
    /\ syllable_means = EmptyDict
    /\ syllables_photometry = <<>>
    /\ pcPhotometry = "idle"
    /\ behavior_data = <<>>
    /\ photometry_distances = None
    /\ compare_pos = 0
    /\ comparisons = <<>>
    /\ diagnostics = <<>>
    /\ pcCompare = "idle"
    /\ groups = <<>>
    /\ include_latent_state = TRUE
    /\ load_pos = 0
    /\ load_syllable_dfs = EmptyDict
    /\ load_returned = None
    /\ pcLoad = "idle"

SpecSegments == InitSegments /\ [][NextSegments]_vars

\* align_and_merge_data has been called on generated tables; merged_dfs = {}
InitAlign ==
    /\ coords = <<>>
    /\ detected = None
    /\ pcDetect = "idle"
    /\ dirs = <<>>
    /\ dir_pos = 0
    /\ all_mouse_intervals = EmptyDict
    /\ all_mouse_intervals_timestamps = EmptyDict
    /\ pcBatch = "idle"
    /\ nan_intervals = <<>>
    /\ segments = None
    /\ pcSegments = "idle"
    /\ merged_dfs = EmptyDict
    /\ align_pos = 0
    /\ pcAlign = "loop"
    /\ subject_dfs = <<>>
    /\ parameters = Parameters(0, 0, 0, 1)
    /\ all_syllables = <<>>
    /\ counts_pos = 0
    /\ initiations = <<>>
    /\ num_initiations = EmptyDict
    /\ initiations_proportions = EmptyDict
    /\ time_spent_proportions = EmptyDict
    /\ pcCounts = "idle"
    /\ snippets_pos = 0
    /\ syllable_snippets_DS = EmptyDict
    /\ syllable_snippets_VS = EmptyDict
    /\ pcSnippets = "idle"
    /\ avg_initiations_proportions = EmptyDict
    /\ avg_time_spent_proportions = EmptyDict
    /\ sorted_initiations = <<>>
    /\ sorted_time_spent = <<>>
    /\ borda_scores = <<>>
    /\ final_ranking = <<>>
    /\ pcRank = "idle"
    /\ syllable_snippets = <<>>
    /\ allowed_syllables = None
    /\ min_snippets = 1
    /\ photometry_signatures = EmptyDict
    /\ syllable_means = EmptyDict
    /\ syllables_photometry = <<>>
    /\ pcPhotometry = "idle"
    /\ behavior_data = <<>>
    /\ photometry_distances = None
    /\ compare_pos = 0
    /\ comparisons = <<>>
    /\ diagnostics = <<>>
    /\ pcCompare = "idle"
    /\ groups = <<>>
    /\ include_latent_state = TRUE
    /\ load_pos = 0
    /\ load_syllable_dfs = EmptyDict
    /\ load_returned = None
    /\ pcLoad = "idle"
    /\ \E inp \in AlignInputs :
          /\ syllable_dfs = inp.s
          /\ tracking_dfs = inp.t
          /\ fiber_dfs = inp.f

SpecAlign == InitAlign /\ [][NextAlign]_vars

\* both functions are still to be called on generated timelines
InitSyllables ==
    /\ coords = <<>>
    /\ detected = None
    /\ pcDetect = "idle"
    /\ dirs = <<>>
    /\ dir_pos = 0
    /\ all_mouse_intervals = EmptyDict
    /\ all_mouse_intervals_timestamps = EmptyDict
    /\ pcBatch = "idle"
    /\ nan_intervals = <<>>
    /\ segments = None
    /\ pcSegments = "idle"
    /\ syllable_dfs = <<>>
    /\ tracking_dfs = EmptyDict
    /\ fiber_dfs = EmptyDict
    /\ merged_dfs = EmptyDict
    /\ align_pos = 0
    /\ pcAlign = "idle"
    /\ all_syllables = <<>>
    /\ counts_pos = 0
    /\ initiations = <<>>
    /\ num_initiations = EmptyDict
    /\ initiations_proportions = EmptyDict
    /\ time_spent_proportions = EmptyDict
    /\ pcCounts = "ready"
    /\ snippets_pos = 0
    /\ syllable_snippets_DS = EmptyDict
    /\ syllable_snippets_VS = EmptyDict
    /\ pcSnippets = "ready"
    /\ avg_initiations_proportions = EmptyDict
    /\ avg_time_spent_proportions = EmptyDict
    /\ sorted_initiations = <<>>
    /\ sorted_time_spent = <<>>
    /\ borda_scores = <<>>
    /\ final_ranking = <<>>
    /\ pcRank = "idle"
    /\ syllable_snippets = <<>>
    /\ allowed_syllables = None
    /\ min_snippets = 1
    /\ photometry_signatures = EmptyDict
    /\ syllable_means = EmptyDict
    /\ syllables_photometry = <<>>
    /\ pcPhotometry = "idle"
    /\ behavior_data = <<>>
    /\ photometry_distances = None
    /\ compare_pos = 0
    /\ comparisons = <<>>
    /\ diagnostics = <<>>
    /\ pcCompare = "idle"
    /\ groups = <<>>
    /\ include_latent_state = TRUE
    /\ load_pos = 0
    /\ load_syllable_dfs = EmptyDict
    /\ load_returned = None
    /\ pcLoad = "idle"
    /\ \E inp \in TimelineInputs :
          /\ subject_dfs = inp.dfs
          /\ parameters = inp.parameters

SpecSyllables == InitSyllables /\ [][NextSyllables]_vars

\* rank_syllables is still to be called on generated proportion dicts
InitRank ==
    /\ coords = <<>>
    /\ detected = None
    /\ pcDetect = "idle"
    /\ dirs = <<>>
    /\ dir_pos = 0
    /\ all_mouse_intervals = EmptyDict
    /\ all_mouse_intervals_timestamps = EmptyDict
    /\ pcBatch = "idle"
    /\ nan_intervals = <<>>
    /\ segments = None
    /\ pcSegments = "idle"
    /\ syllable_dfs = <<>>
    /\ tracking_dfs = EmptyDict
    /\ fiber_dfs = EmptyDict
    /\ merged_dfs = EmptyDict
    /\ align_pos = 0
    /\ pcAlign = "idle"
    /\ subject_dfs = <<>>
    /\ parameters = Parameters(0, 0, 0, 1)
    /\ all_syllables = <<>>
    /\ counts_pos = 0
    /\ initiations = <<>>
    /\ num_initiations = EmptyDict
    /\ pcCounts = "idle"
    /\ snippets_pos = 0
    /\ syllable_snippets_DS = EmptyDict
    /\ syllable_snippets_VS = EmptyDict
    /\ pcSnippets = "idle"
    /\ avg_initiations_proportions = EmptyDict
    /\ avg_time_spent_proportions = EmptyDict
    /\ sorted_initiations = <<>>
    /\ sorted_time_spent = <<>>
    /\ borda_scores = <<>>
    /\ final_ranking = <<>>
    /\ pcRank = "ready"
    /\ syllable_snippets = <<>>
    /\ allowed_syllables = None
    /\ min_snippets = 1
    /\ photometry_signatures = EmptyDict
    /\ syllable_means = EmptyDict
    /\ syllables_photometry = <<>>
    /\ pcPhotometry = "idle"
    /\ behavior_data = <<>>
    /\ photometry_distances = None
    /\ compare_pos = 0
    /\ comparisons = <<>>
    /\ diagnostics = <<>>
    /\ pcCompare = "idle"
    /\ groups = <<>>
    /\ include_latent_state = TRUE
    /\ load_pos = 0
    /\ load_syllable_dfs = EmptyDict
    /\ load_returned = None
    /\ pcLoad = "idle"
    /\ \E n \in 0..MaxLabels :
          /\ initiations_proportions \in [LabelKeys(n) -> ProportionLists]
          /\ time_spent_proportions \in [LabelKeys(n) -> ProportionLists]

SpecRank == InitRank /\ [][NextRank]_vars

\* compute_photometry_distance_matrix is still to be called on generated buckets
InitPhotometry ==
    /\ coords = <<>>
    /\ detected = None
    /\ pcDetect = "idle"
    /\ dirs = <<>>
    /\ dir_pos = 0
    /\ all_mouse_intervals = EmptyDict
    /\ all_mouse_intervals_timestamps = EmptyDict
    /\ pcBatch = "idle"
    /\ nan_intervals = <<>>
    /\ segments = None
    /\ pcSegments = "idle"
    /\ syllable_dfs = <<>>
    /\ tracking_dfs = EmptyDict
    /\ fiber_dfs = EmptyDict
    /\ merged_dfs = EmptyDict
    /\ align_pos = 0
    /\ pcAlign = "idle"
    /\ subject_dfs = <<>>
    /\ parameters = Parameters(0, 0, 0, 1)
    /\ all_syllables = <<>>
    /\ counts_pos = 0
    /\ initiations = <<>>
    /\ num_initiations = EmptyDict
    /\ initiations_proportions = EmptyDict
    /\ time_spent_proportions = EmptyDict
    /\ pcCounts = "idle"
    /\ snippets_pos = 0
    /\ syllable_snippets_DS = EmptyDict
    /\ syllable_snippets_VS = EmptyDict
    /\ pcSnippets = "idle"
    /\ avg_initiations_proportions = EmptyDict
    /\ avg_time_spent_proportions = EmptyDict
    /\ sorted_initiations = <<>>
    /\ sorted_time_spent = <<>>
    /\ borda_scores = <<>>
    /\ final_ranking = <<>>
    /\ pcRank = "idle"
    /\ photometry_signatures = EmptyDict
    /\ syllable_means = EmptyDict
    /\ syllables_photometry = <<>>
    /\ pcPhotometry = "ready"
    /\ behavior_data = <<>>
    /\ photometry_distances = None
    /\ compare_pos = 0
    /\ comparisons = <<>>
    /\ diagnostics = <<>>
    /\ pcCompare = "idle"
    /\ groups = <<>>
    /\ include_latent_state = TRUE
    /\ load_pos = 0
    /\ load_syllable_dfs = EmptyDict
    /\ load_returned = None
    /\ pcLoad = "idle"
    /\ syllable_snippets \in SnippetInputs
    /\ allowed_syllables \in AllowLists
    /\ min_snippets \in 1..MaxSnippets

SpecPhotometry == InitPhotometry /\ [][NextPhotometry]_vars

\* compare_distance_matrices is still to be called on generated matrices
InitCompare ==
    /\ coords = <<>>
    /\ detected = None
    /\ pcDetect = "idle"
    /\ dirs = <<>>
    /\ dir_pos = 0
    /\ all_mouse_intervals = EmptyDict
    /\ all_mouse_intervals_timestamps = EmptyDict
    /\ pcBatch = "idle"
    /\ nan_intervals = <<>>
    /\ segments = None
    /\ pcSegments = "idle"
    /\ syllable_dfs = <<>>
    /\ tracking_dfs = EmptyDict
    /\ fiber_dfs = EmptyDict
    /\ merged_dfs = EmptyDict
    /\ align_pos = 0
    /\ pcAlign = "idle"
    /\ subject_dfs = <<>>
    /\ parameters = Parameters(0, 0, 0, 1)
    /\ all_syllables = <<>>
    /\ counts_pos = 0
    /\ initiations = <<>>
    /\ num_initiations = EmptyDict
    /\ initiations_proportions = EmptyDict
    /\ time_spent_proportions = EmptyDict
    /\ pcCounts = "idle"
    /\ snippets_pos = 0
    /\ syllable_snippets_DS = EmptyDict
    /\ syllable_snippets_VS = EmptyDict
    /\ pcSnippets = "idle"
    /\ avg_initiations_proportions = EmptyDict
    /\ avg_time_spent_proportions = EmptyDict
    /\ sorted_initiations = <<>>
    /\ sorted_time_spent = <<>>
    /\ borda_scores = <<>>
    /\ final_ranking = <<>>
    /\ pcRank = "idle"
    /\ syllable_snippets = <<>>
    /\ min_snippets = 1
    /\ photometry_signatures = EmptyDict
    /\ syllable_means = EmptyDict
    /\ pcPhotometry = "idle"
    /\ compare_pos = 0
    /\ comparisons = <<>>
    /\ diagnostics = <<>>
    /\ pcCompare = "ready"
    /\ groups = <<>>
    /\ include_latent_state = TRUE
    /\ load_pos = 0
    /\ load_syllable_dfs = EmptyDict
    /\ load_returned = None
    /\ pcLoad = "idle"
    /\ behavior_data \in BehaviorInputs
    /\ \E ph \in PhotometryInputs :
          /\ syllables_photometry = ph.syllables
          /\ photometry_distances = ph.distances
    /\ allowed_syllables \in AllowLists

SpecCompare == InitCompare /\ [][NextCompare]_vars

\* load_syllable_data is still to be called on a generated file
InitLoad ==
    /\ coords = <<>>
    /\ detected = None
    /\ pcDetect = "idle"
    /\ dirs = <<>>
    /\ dir_pos = 0
    /\ all_mouse_intervals = EmptyDict
    /\ all_mouse_intervals_timestamps = EmptyDict
    /\ pcBatch = "idle"
    /\ nan_intervals = <<>>
    /\ segments = None
    /\ pcSegments = "idle"
    /\ syllable_dfs = <<>>
    /\ tracking_dfs = EmptyDict
    /\ fiber_dfs = EmptyDict
    /\ merged_dfs = EmptyDict
    /\ align_pos = 0
    /\ pcAlign = "idle"
    /\ subject_dfs = <<>>
    /\ parameters = Parameters(0, 0, 0, 1)
    /\ all_syllables = <<>>
    /\ counts_pos = 0
    /\ initiations = <<>>
    /\ num_initiations = EmptyDict
    /\ initiations_proportions = EmptyDict
    /\ time_spent_proportions = EmptyDict
    /\ pcCounts = "idle"
    /\ snippets_pos = 0
    /\ syllable_snippets_DS = EmptyDict
    /\ syllable_snippets_VS = EmptyDict
    /\ pcSnippets = "idle"
    /\ avg_initiations_proportions = EmptyDict
    /\ avg_time_spent_proportions = EmptyDict
    /\ sorted_initiations = <<>>
    /\ sorted_time_spent = <<>>
    /\ borda_scores = <<>>
    /\ final_ranking = <<>>
    /\ pcRank = "idle"
    /\ syllable_snippets = <<>>
    /\ allowed_syllables = None
    /\ min_snippets = 1
    /\ photometry_signatures = EmptyDict
    /\ syllable_means = EmptyDict
    /\ syllables_photometry = <<>>
    /\ pcPhotometry = "idle"
    /\ behavior_data = <<>>
    /\ photometry_distances = None
    /\ compare_pos = 0
    /\ comparisons = <<>>
    /\ diagnostics = <<>>
    /\ pcCompare = "idle"
    /\ load_pos = 0
    /\ load_syllable_dfs = EmptyDict
    /\ load_returned = None
    /\ pcLoad = "ready"
    /\ groups \in GroupInputs
    /\ include_latent_state \in BOOLEAN

SpecLoad == InitLoad /\ [][NextLoad]_vars

----------------------------------------------------------------------------
(* Claims about find_non_nan_intervals *)

\* The runs of present values of a series, as (first index, end index) pairs.
PresentRunIdx(c) == {k \in 1..Len(c) : ~c[k].nan}

PresentPair(c, k) == <<RunStart(c, k), RunStart(c, k) + c[k].n>>

PresentPairs(c) ==
    LET present(k) == ~c[k].nan
        ks == SelectSeq([k \in 1..Len(c) |-> k], present)
    IN  [j \in 1..Len(ks) |-> PresentPair(c, ks[j])]

\* C1: a series with exactly three present runs, each longer than 240
\* frames, makes find_non_nan_intervals return exactly the three
\* (first index, end index) pairs of those runs, in temporal order.
C1_ThreePresentRuns ==
    (/\ pcDetect = "done"
     /\ Cardinality(PresentRunIdx(coords)) = 3
     /\ \A k \in PresentRunIdx(coords) : coords[k].n > 240)
    => detected = Some(PresentPairs(coords))

\* C2: a present run is retained as an interval exactly when it is longer
\* than 240 frames (240 excluded, 241 included).
C2_PresentRunThreshold ==
    pcDetect = "done" =>
        \A k \in PresentRunIdx(coords) :
            (coords[k].n > 240) <=> (PresentPair(coords, k) \in Range(val_intervals(coords)))


----------------------------------------------------------------------------
(* Claims about process_mouse_data_from_path *)

\* The arenas of the batch that hold a subject, in processing order.
RECURSIVE ArenasFrom(_)
ArenasFrom(k) ==
    IF k > Len(dirs) THEN <<>>
    ELSE LET d == dirs[k]
             all == [j \in 1..Min(Len(d.mice_ids), 2) |-> [id |-> d.mice_ids[j], c |-> d.arena[j]]]
             subject(a) == a.id # "e"
         IN  SelectSeq(all, subject) \o ArenasFrom(k + 1)

Arenas == ArenasFrom(1)

ThreeFound(a) == Len(val_intervals(a.c)) = 3

\* C3: when the batch has been processed, a subject has timestamp-mapped
\* intervals exactly when the detector found exactly three qualifying
\* intervals for it (those of its last such arena); for every other count
\* the detector returns None and the subject has no entry; every directory
\* of the batch was processed.
C3_EntryIffThree ==
    pcBatch \in {"returned", "raised"} =>
        LET A == Arenas
            found == [k \in 1..Len(A) |-> ThreeFound(A[k])]
            hits(id) == {k \in 1..Len(A) : A[k].id = id /\ found[k]}
            last(id) == CHOOSE k \in hits(id) : \A h \in hits(id) : h <= k
        IN  /\ pcBatch = "returned"
            /\ dir_pos = Len(dirs)
            /\ \A k \in 1..Len(A) :
                  /\ (find_non_nan_intervals(A[k].c) = None) <=> ~found[k]
                  /\ (A[k].id \in DOMAIN all_mouse_intervals_timestamps) <=> (hits(A[k].id) # {})
            /\ \A id \in DOMAIN all_mouse_intervals_timestamps :
                  /\ hits(id) # {}
                  /\ LET iv == val_intervals(A[last(id)].c)
                     IN  all_mouse_intervals_timestamps[id]
                            = [k \in 1..3 |-> <<Timestamp(iv[k][1]), Timestamp(iv[k][2])>>]

\* C3 witness: a subject without exactly three intervals is passed over in
\* the first directory and a subject with three is recorded from the second.
C3_Witness ==
    /\ pcBatch = "returned"
    /\ Len(dirs) = 2
    /\ dirs[1].mice_ids = <<"m1", "e">> /\ ~ThreeFound([id |-> "m1", c |-> dirs[1].arena[1]])
    /\ dirs[2].mice_ids = <<"m2", "m1">> /\ ~ThreeFound([id |-> "m1", c |-> dirs[2].arena[2]])
    /\ ThreeFound([id |-> "m2", c |-> dirs[2].arena[1]])
    /\ DOMAIN all_mouse_intervals_timestamps = {"m2"}

----------------------------------------------------------------------------
(* Claims about nan_interval_to_segments *)

ThreePairs(iv) == Len(iv) = 3 /\ \A k \in 1..3 : Len(iv[k]) = 2

\* C4: three intervals (a,b),(c,d),(e,f) give the segments (c-900, c),
\* (d, d+1800), (f, f+1800), in that order; a list that is not three pairs
\* gives no segments.
C4_Segments ==
    pcSegments = "done" =>
        IF ThreePairs(nan_intervals)
        THEN /\ ~segments.none
             /\ segments.val = << <<nan_intervals[2][1] - 900, nan_intervals[2][1]>>,
                                  <<nan_intervals[2][2], nan_intervals[2][2] + 1800>>,
                                  <<nan_intervals[3][2], nan_intervals[3][2] + 1800>> >>
        ELSE segments = None

\* C4 witness: (100,150),(5000,5010),(9000,9050) gives baseline (4100,5000).
C4_Witness ==
    /\ pcSegments = "done"
    /\ nan_intervals = << <<100, 150>>, <<5000, 5010>>, <<9000, 9050>> >>
    /\ segments.val[1] = <<4100, 5000>>

----------------------------------------------------------------------------
(* Claims about align_and_merge_data *)

SyllableOf(id) == syllable_dfs[CHOOSE k \in 1..Len(syllable_dfs) : syllable_dfs[k].id = id].df

Dist(a, b) == IF a >= b THEN a - b ELSE b - a

\* The fiber row at 0-based position p is as near to timestamp t as any.
NearestFiberRow(fiber_df, p, t) ==
    /\ p \in 0..(Len(fiber_df.ts) - 1)
    /\ \A k \in 1..Len(fiber_df.ts) :
          Dist(fiber_df.ts[p + 1][1], t) <= Dist(fiber_df.ts[k][1], t)

\* C5: a merged table has exactly min(len(state table), len(tracking
\* table)) rows, whatever the number of rows of the fiber table.
C5_RowCount ==
    \A id \in DOMAIN merged_dfs :
        LET len1 == Len(SyllableOf(id).ts)
            len2 == Len(tracking_dfs[id].ts)
        IN  Len(merged_dfs[id].rows) = (IF len1 <= len2 THEN len1 ELSE len2)

\* C5 witness: a state table longer than the tracking table, and a fiber
\* table longer than both truncated tables.
C5_Witness ==
    \E id \in DOMAIN merged_dfs :
        /\ Len(SyllableOf(id).ts) = 2
        /\ Len(tracking_dfs[id].ts) = 1
        /\ Len(fiber_dfs[id].ts) = 2
        /\ Len(merged_dfs[id].rows) = 1

C7_Sorted ==
    \A id \in DOMAIN merged_dfs :
        \A i, j \in 1..Len(merged_dfs[id].rows) :
            i < j => merged_dfs[id].rows[i].timestamp_syllable[1]
                        <= merged_dfs[id].rows[j].timestamp_syllable[1]

\* C7 witness: a tracking table given in decreasing timestamp order.
C7_Witness ==
    \E id \in DOMAIN merged_dfs :
        /\ Len(merged_dfs[id].rows) = 2
        /\ Has(tracking_dfs[id].columns, TRACK_TS)
        /\ tracking_dfs[id].ts[1][1] > tracking_dfs[id].ts[2][1]
        /\ merged_dfs[id].rows[1].left_row = 1

\* The merge of subject id goes through: the combined table has one
\* tracking timestamp column, and no merge key is null on either side.
MergeSucceeds(id) ==
    LET s == SyllableOf(id)
        t == tracking_dfs[id]
        f == fiber_dfs[id]
        n == IF Len(s.ts) <= Len(t.ts) THEN Len(s.ts) ELSE Len(t.ts)
        key == IF Has(t.columns, TRACK_TS) THEN t.ts ELSE s.ts
    IN  /\ ~(Has(s.columns, TRACK_TS) /\ Has(t.columns, TRACK_TS))
        /\ \A k \in 1..n : key[k] # NaN
        /\ \A k \in 1..Len(f.ts) : f.ts[k] # NaN

\* C8: the subjects of the result are exactly the subjects that have a
\* tracking table, a fiber table, the tracking timestamp column in the
\* combined table, the fiber timestamp column in the fiber table, and a
\* merge that does not raise.
C8_OutputSubjects ==
    pcAlign = "returned" =>
        DOMAIN merged_dfs =
            { id \in {syllable_dfs[k].id : k \in 1..Len(syllable_dfs)} :
                /\ id \in DOMAIN tracking_dfs
                /\ id \in DOMAIN fiber_dfs
                /\ Has(SyllableOf(id).columns, TRACK_TS) \/ Has(tracking_dfs[id].columns, TRACK_TS)
                /\ Has(fiber_dfs[id].columns, FLY_TS)
                /\ MergeSucceeds(id) }

\* C8 witness: the first subject's merge raises on a null key and the
\* second subject is merged.
C8_Witness ==
    /\ pcAlign = "returned"
    /\ Len(syllable_dfs) = 2
    /\ syllable_dfs[1].id \in (DOMAIN tracking_dfs) \cap (DOMAIN fiber_dfs)
    /\ Has(tracking_dfs[syllable_dfs[1].id].columns, TRACK_TS)
    /\ Has(fiber_dfs[syllable_dfs[1].id].columns, FLY_TS)
    /\ ~MergeSucceeds(syllable_dfs[1].id)
    /\ DOMAIN merged_dfs = {syllable_dfs[2].id}

----------------------------------------------------------------------------
(* Initiation events (compute_syllable_counts, extract_signal_snippets)    *)

\* The snippets of one subject, over every bucket.
SnippetsOf(mouse_id) ==
    { sn \in UNION { Range(syllable_snippets_DS[key]) : key \in DOMAIN syllable_snippets_DS } :
        sn.mouse_id = mouse_id }

\* The subject at position i was not skipped by extract_signal_snippets.
Extracted(i) ==
    /\ i <= snippets_pos
    /\ pcSnippets # "raised" \/ i < snippets_pos
    /\ required_columns \subseteq subject_dfs[i].df.columns

\* Frame k (1-based) has a label that is not missing and differs from the
\* label of the frame before it; a missing predecessor counts as different.
LabelChanges(labels, k) ==
    /\ labels[k] # NaN
    /\ labels[k - 1] = NaN \/ labels[k - 1] # labels[k]

\* C9: the first frame of a subject's timeline is never an initiation: it is
\* not counted as one by compute_syllable_counts and never gives a snippet in
\* extract_signal_snippets, also when m = 0.
C9_FirstFrameNeverInitiation ==
    /\ (counts_pos > 0 /\ initiations # <<>>) => ~initiations[1]
    /\ \A i \in 1..snippets_pos :
          \A sn \in SnippetsOf(subject_dfs[i].id) : sn.idx # 0

\* C10: for every frame after the first, the frame is an initiation exactly
\* when its label is not missing and differs from the label of the frame
\* before it (a missing predecessor counts as different).  In
\* compute_syllable_counts this is the mask of the last subject processed;
\* in extract_signal_snippets a frame after the first gives a snippet exactly
\* when it is such a frame, its label is one of top_syllables, its time lies
\* in a phase window and its window fits the timeline.
C10_InitiationIffChange ==
    /\ counts_pos > 0 =>
          LET labels == labels_of(subject_dfs[counts_pos].df)
          IN  /\ Len(initiations) = Len(labels)
              /\ \A k \in 2..Len(labels) : initiations[k] <=> LabelChanges(labels, k)
    /\ \A i \in 1..snippets_pos :
          Extracted(i) =>
             LET df == subject_dfs[i].df
                 labels == labels_of(df)
             IN  \A k \in 2..Len(labels) :
                    (\E sn \in SnippetsOf(subject_dfs[i].id) : sn.idx = k - 1)
                    <=> /\ LabelChanges(labels, k)
                        /\ \E y \in top_syllables : labels[k] = Cell(y)
                        /\ injection_phase(to_numeric(df.rows[k].SecFromInjection_fiber)) # "none"
                        /\ (k - 1) - parameters.m >= 0
                        /\ (k - 1) + parameters.n < Len(labels)

\* A label that follows a missing frame and equals the last non-missing
\* label is an initiation in both functions.
C10_Witness ==
    /\ pcCounts = "returned"
    /\ pcSnippets = "returned"
    /\ Len(subject_dfs) = 1
    /\ labels_of(subject_dfs[1].df) = << Cell(1), NaN, Cell(1) >>
    /\ initiations = << TRUE, FALSE, TRUE >>
    /\ \E sn \in SnippetsOf(subject_dfs[1].id) : sn.idx = 2

----------------------------------------------------------------------------
(* Phases, windows and values of the snippets (extract_signal_snippets)    *)

\* The stored snippets of a channel with their bucket keys.
BucketEntries(snippets) ==
    UNION { { <<key, snippets[key][j]>> : j \in 1..Len(snippets[key]) } : key \in DOMAIN snippets }

\* Frame k (1-based) of a timeline is an initiation of a label of
\* top_syllables whose window fits the timeline.
AdmissibleLabelAndWindow(df, k, p) ==
    /\ snippet_initiations(labels_of(df))[k]
    /\ \E y \in 0..39 : labels_of(df)[k] = Cell(y)
    /\ (k - 1) - p.m >= 0
    /\ (k - 1) + p.n <= Len(df.rows) - 1

C12_FullWindows ==
    /\ \A snippets \in {syllable_snippets_DS, syllable_snippets_VS} :
          \A e \in BucketEntries(snippets) :
              /\ Len(e[2].values) = parameters.m + parameters.n + 1
              /\ e[2].start_idx = e[2].idx - parameters.m
              /\ e[2].end_idx = e[2].idx + parameters.n
    /\ \A i \in 1..snippets_pos :
          Extracted(i) =>
             LET df == subject_dfs[i].df
                 labels == labels_of(df)
                 L == Len(df.rows)
                 admissible(k) ==
                    /\ snippet_initiations(labels)[k]
                    /\ \E y \in 0..39 : labels[k] = Cell(y)
                    /\ injection_phase(to_numeric(df.rows[k].SecFromInjection_fiber)) # "none"
             IN  \A snippets \in {syllable_snippets_DS, syllable_snippets_VS} :
                    \A k \in 1..L :
                        admissible(k) =>
                           ((\E e \in BucketEntries(snippets) :
                                e[2].mouse_id = subject_dfs[i].id /\ e[2].idx = k - 1)
                            <=> ((k - 1) - parameters.m >= 0 /\ (k - 1) + parameters.n <= L - 1))

\* With m = n = 1 and three events at indices 0, 1 and 2 of a timeline of
\* three frames, only the event at index 1 gives a snippet, of 3 samples.
C12_Witness ==
    /\ pcSnippets = "returned"
    /\ parameters.m = 1 /\ parameters.n = 1
    /\ Len(subject_dfs) = 1
    /\ labels_of(subject_dfs[1].df) = << Cell(0), Cell(1), Cell(0) >>
    /\ \A k \in 1..3 : subject_dfs[1].df.rows[k].SecFromInjection_fiber = Cell(0 - 10)
    /\ \E e \in BucketEntries(syllable_snippets_DS) :
          /\ BucketEntries(syllable_snippets_DS) = {e}
          /\ e[2].idx = 1 /\ Len(e[2].values) = 3

\* C13: with normalization_frame = 0 the first sample of every stored
\* snippet is 0, in both channels and every bucket.
C13_FirstSampleZero ==
    parameters.normalization_frame = 0 =>
        \A snippets \in {syllable_snippets_DS, syllable_snippets_VS} :
            \A e \in BucketEntries(snippets) : e[2].values[1] = Frac(0, 1)

\* The samples of subject i's column in the window of a stored snippet.
WindowOf(i, channel, sn) ==
    iloc_slice(column_of(subject_dfs[i].df, channel), sn.start_idx, sn.end_idx + 1)

\* C14: every stored snippet is its window smoothed by a centered rolling
\* mean of width window_size (at least 1 valid sample), then normalized.
C14_CenteredSmoothing ==
    \A i \in 1..snippets_pos :
        Extracted(i) =>
            /\ \A e \in BucketEntries(syllable_snippets_DS) :
                  e[2].mouse_id = subject_dfs[i].id =>
                     e[2].values = normalize(rolling_mean_centered(WindowOf(i, "DS_470", e[2]),
                                                                   parameters.window_size),
                                             parameters.normalization_frame)
            /\ \A e \in BucketEntries(syllable_snippets_VS) :
                  e[2].mouse_id = subject_dfs[i].id =>
                     e[2].values = normalize(rolling_mean_centered(WindowOf(i, "VS_470", e[2]),
                                                                   parameters.window_size),
                                             parameters.normalization_frame)

\* The positions of the stored snippets of a channel: (bucket key, place).
BucketSlots(snippets) ==
    UNION { { <<key, j>> : j \in 1..Len(snippets[key]) } : key \in DOMAIN snippets }

\* The frames (1-based) of subject i that pass the label, phase and
\* boundary checks.
KeptFrames(i) ==
    LET df == subject_dfs[i].df
    IN  { k \in 1..Len(df.rows) :
            /\ AdmissibleLabelAndWindow(df, k, parameters)
            /\ injection_phase(to_numeric(df.rows[k].SecFromInjection_fiber)) # "none" }

\* Every kept event of the subjects processed so far has exactly one
\* snippet in the channel, in the bucket of its subject's genotype, its
\* phase and its label, and the channel holds no other snippet.
OnePerEvent(snippets) ==
    LET done == {i \in 1..snippets_pos : Extracted(i)}
    IN  /\ \A i \in done :
              \A k \in KeptFrames(i) :
                 LET df == subject_dfs[i].df
                     slots == { sl \in BucketSlots(snippets) :
                                  /\ snippets[sl[1]][sl[2]].mouse_id = subject_dfs[i].id
                                  /\ snippets[sl[1]][sl[2]].idx = k - 1 }
                 IN  /\ Cardinality(slots) = 1
                     /\ \A sl \in slots :
                           /\ sl[1][1] = (IF "Genotype_syllable" \in df.columns
                                          THEN df.genotype ELSE "Unknown")
                           /\ sl[1][2] = injection_phase(to_numeric(df.rows[k].SecFromInjection_fiber))
                           /\ Cell(sl[1][3]) = labels_of(df)[k]
        /\ Cardinality(BucketSlots(snippets))
              = SumOver([i \in done |-> Cardinality(KeptFrames(i))], done)

\* A step leaves every snippet already in a bucket where and as it is.
SnippetsKept(old, new) ==
    \A key \in DOMAIN old :
        /\ key \in DOMAIN new
        /\ Len(new[key]) >= Len(old[key])
        /\ SubSeq(new[key], 1, Len(old[key])) = old[key]

\* C15: each event that passes the label, phase and boundary checks gives
\* exactly one snippet per channel, in exactly one bucket keyed (genotype of
\* its subject, its phase, its label); the number of snippets over all
\* buckets is the number of such events over all subjects; snippets already
\* appended are not altered by later events or subjects.
C15_OneSnippetPerEvent ==
    /\ [](OnePerEvent(syllable_snippets_DS) /\ OnePerEvent(syllable_snippets_VS))
    /\ [][/\ SnippetsKept(syllable_snippets_DS, syllable_snippets_DS')
          /\ SnippetsKept(syllable_snippets_VS, syllable_snippets_VS')]_vars

\* Two subjects of the same genotype share a bucket: the first subject's
\* snippet is followed by the second's.
C15_Witness ==
    /\ pcSnippets = "returned"
    /\ Len(subject_dfs) = 2
    /\ \E key \in DOMAIN syllable_snippets_DS :
          /\ Len(syllable_snippets_DS[key]) = 2
          /\ syllable_snippets_DS[key][1].mouse_id = "m1"
          /\ syllable_snippets_DS[key][2].mouse_id = "m2"
    /\ Cardinality(DOMAIN syllable_snippets_VS) = 3

----------------------------------------------------------------------------
(* Failing subjects (extract_signal_snippets, align_and_merge_data)        *)

RECURSIVE ExtractFrom(_, _, _, _)
\* What extract_signal_snippets gives for the subjects of dfs from the i-th
\* on, started with the buckets acc: an exception or the two channels.
ExtractFrom(dfs, i, p, acc) ==
    IF i > Len(dfs) THEN acc
    ELSE LET df == dfs[i].df
         IN  IF genotype_raises(df) THEN [acc EXCEPT !.raised = TRUE]
             ELSE IF ~(required_columns \subseteq df.columns) THEN ExtractFrom(dfs, i + 1, p, acc)
             ELSE IF normalization_raises(df, p) THEN [acc EXCEPT !.raised = TRUE]
             ELSE ExtractFrom(dfs, i + 1, p,
                     [raised |-> FALSE,
                      DS |-> append_all(acc.DS, subject_events(dfs[i].id, df, 0, p, "DS_470"), 1),
                      VS |-> append_all(acc.VS, subject_events(dfs[i].id, df, 0, p, "VS_470"), 1)])

\* The outcome of extract_signal_snippets(dfs, p).
Extract(dfs, p) == ExtractFrom(dfs, 1, p, [raised |-> FALSE, DS |-> EmptyDict, VS |-> EmptyDict])

HasRequiredColumns(subject) == required_columns \subseteq subject.df.columns

\* C16: a subject whose table lacks a required column contributes no
\* snippet, and the call gives for the other subjects what it gives for the
\* batch without that subject.
C16_MissingColumnsSkipped ==
    pcSnippets \in {"returned", "raised"} =>
        LET without == Extract(SelectSeq(subject_dfs, HasRequiredColumns), parameters)
        IN  /\ \A i \in 1..Len(subject_dfs) :
                  ~HasRequiredColumns(subject_dfs[i]) =>
                      \A e \in BucketEntries(syllable_snippets_DS) \cup BucketEntries(syllable_snippets_VS) :
                          e[2].mouse_id # subject_dfs[i].id
            /\ without.raised <=> pcSnippets = "raised"
            /\ pcSnippets = "returned" =>
                  /\ syllable_snippets_DS = without.DS
                  /\ syllable_snippets_VS = without.VS

\* C17 for extract_signal_snippets: the call returns, and with the results
\* of every subject whose own processing does not fail.
C17_ExtractNeverAborts ==
    /\ pcSnippets # "raised"
    /\ pcSnippets = "returned" =>
          \A i \in 1..Len(subject_dfs) :
              ~Extract(<<subject_dfs[i]>>, parameters).raised =>
                  \A key \in DOMAIN Extract(<<subject_dfs[i]>>, parameters).DS :
                      /\ key \in DOMAIN syllable_snippets_DS
                      /\ \A sn \in Range(Extract(<<subject_dfs[i]>>, parameters).DS[key]) :
                            sn \in Range(syllable_snippets_DS[key])

----------------------------------------------------------------------------
(* Proportions (compute_syllable_counts)                                   *)

\* a / b as a proportion equals the stored pair.
SameProportion(pair, a, b) == pair[1] * b = a * pair[2]

\* The sum over all labels of the proportions of the subject at position i,
\* in units of 1 / total.
ProportionSum(props, i, total) ==
    SumOver([y \in DOMAIN props |-> (props[y][i][1] * total) \div props[y][i][2]], DOMAIN props)

\* C18: for the subject processed last, the initiation proportion of a label
\* is its initiation events over all initiation events and its occupancy
\* proportion is its frames over the frames with a label; with at least one
\* labelled frame both lists sum to 1 over all labels.
C18_Proportions ==
    counts_pos > 0 =>
        LET i == counts_pos
            labels == labels_of(subject_dfs[i].df)
            frames == 1..Len(labels)
            starts == {k \in frames : labels[k] # NaN /\ (k = 1 \/ labels[k - 1] = NaN \/ labels[k - 1] # labels[k])}
            labelled == {k \in frames : labels[k] # NaN}
            count(K, y) == Cardinality({k \in K : labels[k] = to_numeric(y)})
        IN  labelled # {} =>
              /\ \A y \in Range(all_syllables) :
                    /\ SameProportion(initiations_proportions[y][i], count(starts, y), Cardinality(starts))
                    /\ SameProportion(time_spent_proportions[y][i], count(labelled, y), Cardinality(labelled))
              /\ ProportionSum(initiations_proportions, i, Cardinality(starts)) = Cardinality(starts)
              /\ ProportionSum(time_spent_proportions, i, Cardinality(labelled)) = Cardinality(labelled)

----------------------------------------------------------------------------
(* Borda ranking (rank_syllables)                                          *)

\* The points of a label in the final ranking.
TotalOf(y) == final_ranking[place_of(final_ranking, y)][2]

\* A list of (label, value) pairs names every label of Labels exactly once.
ListsEachOnce(items, Labels) ==
    /\ Len(items) = Cardinality(Labels)
    /\ \A y \in Labels : \E k \in 1..Len(items) : items[k][1] = y

\* C19: with N labels, the label at 0-indexed position r of each of the two
\* descending score lists gets N - r points from it, a label's total is the
\* sum of its two point values, and the final ranking lists every label
\* exactly once in non-increasing order of total; every total lies in
\* [2, 2N] and the totals sum to N(N + 1).
C19_Borda ==
    pcRank = "returned" =>
        LET Labels == DOMAIN initiations_proportions
            N == Cardinality(Labels)
        IN  /\ ListsEachOnce(sorted_initiations, Labels)
            /\ ListsEachOnce(sorted_time_spent, Labels)
            /\ ListsEachOnce(final_ranking, Labels)
            /\ \A k \in 1..N :
                  /\ sorted_initiations[k][2] = avg_initiations_proportions[sorted_initiations[k][1]]
                  /\ sorted_time_spent[k][2] = avg_time_spent_proportions[sorted_time_spent[k][1]]
            /\ \A j, k \in 1..N :
                  j < k =>
                     /\ sorted_initiations[j][2][1] * sorted_initiations[k][2][2]
                           >= sorted_initiations[k][2][1] * sorted_initiations[j][2][2]
                     /\ sorted_time_spent[j][2][1] * sorted_time_spent[k][2][2]
                           >= sorted_time_spent[k][2][1] * sorted_time_spent[j][2][2]
                     /\ final_ranking[j][2] >= final_ranking[k][2]
            /\ \A r1, r2 \in 0..(N - 1) :
                  sorted_initiations[r1 + 1][1] = sorted_time_spent[r2 + 1][1] =>
                      TotalOf(sorted_initiations[r1 + 1][1]) = (N - r1) + (N - r2)
            /\ \A k \in 1..N : 2 <= final_ranking[k][2] /\ final_ranking[k][2] <= 2 * N
            /\ SumOver([k \in 1..N |-> final_ranking[k][2]], 1..N) = N * (N + 1)

\* Three labels ranked in opposite orders by the two lists: all totals tie.
C19_Witness ==
    /\ pcRank = "returned"
    /\ Len(final_ranking) = 3
    /\ sorted_initiations[1][1] = sorted_time_spent[3][1]
    /\ sorted_initiations[3][1] = sorted_time_spent[1][1]
    /\ \A k \in 1..3 : final_ranking[k][2] = 4
    /\ frac_less(sorted_initiations[2][2], sorted_initiations[1][2])

----------------------------------------------------------------------------
(* Mean signatures (compute_photometry_distance_matrix)                    *)

RECURSIVE PooledFrom(_, _)
\* All snippets of a label, over every bucket from the k-th on.
PooledFrom(y, k) ==
    IF k > Len(syllable_snippets) THEN <<>>
    ELSE (IF syllable_snippets[k].syllable = y THEN syllable_snippets[k].snippets ELSE <<>>)
            \o PooledFrom(y, k + 1)

Allowed(y) == allowed_syllables.none \/ y \in Range(allowed_syllables.val)

\* C20: an included label is in the allow-list if one is given and has at
\* least min_snippets snippets, a label with a bucket of at least
\* min_snippets snippets is included, and the mean signature of an included
\* label is the average of all its snippets pooled over every bucket.
C20_PooledMeans ==
    pcPhotometry = "returned" =>
        /\ \A y \in Range(syllables_photometry) :
              /\ Allowed(y)
              /\ Len(PooledFrom(y, 1)) >= min_snippets
              /\ syllable_means[y] = mean_axis0(PooledFrom(y, 1))
        /\ \A k \in 1..Len(syllable_snippets) :
              (Allowed(syllable_snippets[k].syllable) /\ Len(syllable_snippets[k].snippets) >= min_snippets)
                  => syllable_snippets[k].syllable \in Range(syllables_photometry)

----------------------------------------------------------------------------
(* Runs at the ends of the series (find_non_nan_intervals)                 *)

\* C25: a present first frame makes the run from index 0 a candidate
\* interval (0, its end), a present last frame makes the final run a
\* candidate interval (its start, series length); both are retained when
\* longer than 240 frames.
C25_EdgeRuns ==
    (pcDetect = "done" /\ coords # <<>>) =>
        LET candidates == Range(zip(val_to_nans(coords), nan_to_vals(coords)))
            retained == Range(val_intervals(coords))
            last == Len(coords)
        IN  /\ ~coords[1].nan =>
                  /\ <<0, coords[1].n>> \in candidates
                  /\ coords[1].n > 240 => <<0, coords[1].n>> \in retained
            /\ ~coords[last].nan =>
                  /\ <<RunStart(coords, last), SeriesLen(coords)>> \in candidates
                  /\ coords[last].n > 240 => <<RunStart(coords, last), SeriesLen(coords)>> \in retained

----------------------------------------------------------------------------
(* Labels and channels of the buckets (extract_signal_snippets)            *)

C28_SameStructure ==
    /\ DOMAIN syllable_snippets_DS = DOMAIN syllable_snippets_VS
    /\ \A key \in DOMAIN syllable_snippets_DS :
          /\ Len(syllable_snippets_DS[key]) > 0
          /\ Len(syllable_snippets_DS[key]) = Len(syllable_snippets_VS[key])
          /\ \A k \in 1..Len(syllable_snippets_DS[key]) :
                /\ syllable_snippets_DS[key][k].mouse_id = syllable_snippets_VS[key][k].mouse_id
                /\ syllable_snippets_DS[key][k].idx = syllable_snippets_VS[key][k].idx
                /\ syllable_snippets_DS[key][k].start_idx = syllable_snippets_VS[key][k].start_idx
                /\ syllable_snippets_DS[key][k].end_idx = syllable_snippets_VS[key][k].end_idx

\* A bucket of two snippets whose ventral samples are missing where the
\* dorsal ones are not.
C28_Witness ==
    /\ pcSnippets = "returned"
    /\ \E key \in DOMAIN syllable_snippets_DS :
          /\ Len(syllable_snippets_DS[key]) = 2
          /\ Len(syllable_snippets_VS[key]) = 2
          /\ syllable_snippets_DS[key][1].values[1] # NaN
          /\ syllable_snippets_VS[key][1].values[1] = NaN
          /\ syllable_snippets_VS[key][2].values[1] # NaN

----------------------------------------------------------------------------
(* Input tables of the core operations                                     *)

\* C24: no step of align_and_merge_data, compute_syllable_counts or
\* extract_signal_snippets changes a table that was passed in.
C24_InputsReadOnly ==
    [][/\ syllable_dfs' = syllable_dfs
       /\ tracking_dfs' = tracking_dfs
       /\ fiber_dfs' = fiber_dfs
       /\ subject_dfs' = subject_dfs]_vars

----------------------------------------------------------------------------
(* Ties (rank_syllables)                                                   *)

\* C27: labels with equal averages are in ascending label order in each of
\* the two sorted lists, and labels with equal totals are in the final
\* ranking in the order they have in the initiation list.
C27_Ties ==
    pcRank = "returned" =>
        /\ \A j, k \in 1..Len(sorted_initiations) :
              (j < k /\ sorted_initiations[j][2] = sorted_initiations[k][2]) =>
                  sorted_initiations[j][1][1] < sorted_initiations[k][1][1]
        /\ \A j, k \in 1..Len(sorted_time_spent) :
              (j < k /\ sorted_time_spent[j][2] = sorted_time_spent[k][2]) =>
                  sorted_time_spent[j][1][1] < sorted_time_spent[k][1][1]
        /\ \A j, k \in 1..Len(final_ranking) :
              (j < k /\ final_ranking[j][2] = final_ranking[k][2]) =>
                  place_of(sorted_initiations, final_ranking[j][1])
                      < place_of(sorted_initiations, final_ranking[k][1])

\* Two labels tie in the time list, and two labels with the same total are
\* in the final ranking against ascending label order.
C27_Witness ==
    /\ pcRank = "returned"
    /\ Len(final_ranking) = 3
    /\ \E j \in 1..2 : sorted_time_spent[j][2] = sorted_time_spent[j + 1][2]
    /\ \E j \in 1..2 :
          /\ final_ranking[j][2] = final_ranking[j + 1][2]
          /\ final_ranking[j][1][1] > final_ranking[j + 1][1][1]

----------------------------------------------------------------------------
(* One entry per subject (compute_syllable_counts)                         *)

\* C29: after compute_syllable_counts returns, both maps have one list per
\* label seen in any subject, each list has one entry per subject, the
\* entry of a subject without the label is 0, and the average that
\* rank_syllables takes of a list is its sum divided by the number of
\* subjects.
C29_EntryPerSubject ==
    pcCounts = "returned" =>
        \A props \in {initiations_proportions, time_spent_proportions} :
            /\ DOMAIN props = Range(all_syllables)
            /\ \A y \in DOMAIN props :
                  /\ Len(props[y]) = Len(subject_dfs)
                  /\ \A i \in 1..Len(subject_dfs) :
                        (\A k \in 1..Len(subject_dfs[i].df.rows) :
                            labels_of(subject_dfs[i].df)[k] # y) => props[y][i][1] = 0
                  /\ mean_or_zero(props[y])[1] * frac_sum(props[y], 1)[2] * Len(subject_dfs)
                        = frac_sum(props[y], 1)[1] * mean_or_zero(props[y])[2]

\* Two subjects, a label that only the first has: its list is (2/3, 0)
\* and its average 1/3.
C29_Witness ==
    /\ pcCounts = "returned"
    /\ Len(subject_dfs) = 2
    /\ \E y \in DOMAIN time_spent_proportions :
          /\ time_spent_proportions[y] = << <<2, 3>>, <<0, 1>> >>
          /\ mean_or_zero(time_spent_proportions[y]) = <<1, 3>>
          /\ \A k \in 1..Len(subject_dfs[2].df.rows) : labels_of(subject_dfs[2].df)[k] # y

----------------------------------------------------------------------------
(* Compared labels and entries (compare_distance_matrices)                 *)

\* The comparisons recorded for the k-th file.
ComparisonsOf(k) ==
    SelectSeq(comparisons, LAMBDA c : c.file = behavior_data[k].file)

\* The labels common to the k-th file's own label set and the photometry
\* label set.
CommonLabels(k) == Range(behavior_data[k].syllable_ixs) \cap Range(syllables_photometry)

\* C21: a file is compared only on labels of both its own label set and
\* the photometry label set (those that the allow-list keeps); a file with
\* fewer than 2 common labels gets no comparison but a diagnostic, and the
\* files after it are still processed: when the loop over the files returns,
\* every file with an array and at least 2 common allowed labels has its
\* comparison.
C21_CommonLabels ==
    /\ \A k \in 1..Len(behavior_data) :
          /\ \A j \in 1..Len(ComparisonsOf(k)) :
                /\ Range(ComparisonsOf(k)[j].common_syllables) \subseteq CommonLabels(k)
                /\ Range(ComparisonsOf(k)[j].common_syllables)
                      = {y \in CommonLabels(k) : Allowed(y)}
          /\ Cardinality(CommonLabels(k)) < 2 => ComparisonsOf(k) = <<>>
          /\ (Cardinality(CommonLabels(k)) < 2 /\ k <= compare_pos) =>
                \E d \in Range(diagnostics) : d.file = behavior_data[k].file
    /\ (pcCompare = "returned" /\ ~photometry_distances.none /\ syllables_photometry # <<>>) =>
          /\ Len(comparisons) + Len(diagnostics) = Len(behavior_data)
          /\ \A k \in 1..Len(behavior_data) :
                (/\ ~behavior_data[k].distances.none
                 /\ Cardinality({y \in CommonLabels(k) : Allowed(y)}) >= 2) =>
                    Len(ComparisonsOf(k)) = 1

\* A file with one common label is skipped and the file after it is
\* compared on the two labels that the photometry list has of its three.
C21_Witness ==
    /\ pcCompare = "returned"
    /\ Len(behavior_data) = 2
    /\ Cardinality(CommonLabels(1)) = 1
    /\ Len(behavior_data[2].syllable_ixs) = 3
    /\ diagnostics = << [file |-> behavior_data[1].file, warning |-> "not enough common syllables"] >>
    /\ Len(comparisons) = 1
    /\ comparisons[1].file = behavior_data[2].file
    /\ Len(comparisons[1].common_syllables) = 2

\* The place in the upper-triangle vector of n labels of the pair of the
\* a-th and the b-th label, a < b.
TriuPlace(n, a, b) == (a - 1) * n - ((a - 1) * a) \div 2 + (b - a)

\* C22: for every pair of common labels the compared behavior entry is the
\* entry of the supplied matrix at the positions of the two labels in the
\* file's own label list, and the compared photometry entry is the entry of
\* the photometry matrix at their positions in the photometry list.
C22_SameLabelOrder ==
    \A k \in 1..Len(behavior_data) :
        \A j \in 1..Len(ComparisonsOf(k)) :
            LET c == ComparisonsOf(k)[j]
                n == Len(c.common_syllables)
                own == behavior_data[k].syllable_ixs
            IN  \A a, b \in 1..n :
                    a < b =>
                       /\ c.behavior_vec[TriuPlace(n, a, b)]
                             = behavior_data[k].distances.val
                                  [index_of(own, c.common_syllables[a]) + 1]
                                  [index_of(own, c.common_syllables[b]) + 1]
                       /\ c.photometry_vec[TriuPlace(n, a, b)]
                             = photometry_distances.val
                                  [index_of(syllables_photometry, c.common_syllables[a]) + 1]
                                  [index_of(syllables_photometry, c.common_syllables[b]) + 1]

----------------------------------------------------------------------------
(* Groups of one subject (load_syllable_data)                              *)

\* Two groups of the file give the same subject identifier.
TwoGroupsOfOneSubject ==
    \E j, k \in 1..Len(groups) :
        /\ j < k
        /\ pattern_matches(groups[j].name) /\ pattern_matches(groups[k].name)
        /\ mouse_id_of(groups[j].name) = mouse_id_of(groups[k].name)

\* C23: when two groups give the same subject identifier the load ends with
\* an error and returns nothing, at the second of the two groups at the
\* latest; otherwise it does not fail, whatever groups have a name without
\* an identifier.
C23_DuplicateIsFatal ==
    /\ pcLoad = "raised" => load_returned = None
    /\ pcLoad = "returned" => ~TwoGroupsOfOneSubject
    /\ pcLoad = "raised" => TwoGroupsOfOneSubject
    /\ \A j, k \in 1..Len(groups) :
          (/\ j < k /\ k <= load_pos
           /\ pattern_matches(groups[j].name) /\ pattern_matches(groups[k].name)
           /\ mouse_id_of(groups[j].name) = mouse_id_of(groups[k].name)) =>
              pcLoad = "raised"

====
